---------------------------- MODULE Spec2Model ----------------------------
(***************************************************************************)
(* A model of the chromosome construction and repair engine of the         *)
(* genetic-algorithm router (src/GeneticAlgorithm/modules).                 *)
(*                                                                         *)
(* Rates are real numbers in the code.  Here a rate is an integer count of *)
(* 1/Unit of one rate unit (fixed point), with Unit = AckDen * AckDen, so  *)
(* that the ACK overhead 0.0458 = AckNum / AckDen of a rate is computed    *)
(* exactly through two nested link repairs.  Python indexes from 0, TLA+   *)
(* sequences from 1: link, path and flow ids are shifted by one.           *)
(***************************************************************************)
EXTENDS Integers, Sequences, FiniteSets, TLC

VARIABLES
    topo,               \* the Network / flows the operators were built with
    pc,                 \* position of the running call
    op,                 \* the public operation that is running / has run
    cur,                \* which chromosome the link-repair loop works on
    chromosome_1,       \* (first) chromosome of the running call
    chromosome_2,       \* second chromosome (crossover only)
    input_1,            \* the chromosome(s) the call was given
    input_2,
    pre_repair_1,       \* crossover: the children before link repair
    pre_repair_2,
    error,              \* "none", or the exception that ended the call
    passes,             \* passes of the current link-repair while loop
    repairs_carried_out,\* local flag of the link-repair loop
    current_operation,  \* GaOperators.current_operation (OpType)
    mutation_operation, \* chromosome.mutation_operation of the chromosome
    mutated_flows,      \* the flows the call assigns rates to, in its order
    paths_visited,      \* paths_to_use of _assign_data_rate_on_paths, shuffled
    re_values,          \* remove_excess called on its own: arguments ...
    re_excess,
    re_outcome,         \* ... and what it returned or raised
    ev_topo,            \* evaluate_chromosome: the Network / flows ...
    ev_chromosome,      \* ... the chromosome to score ...
    ev_result,          \* ... and the fitness tuple returned, or the error
    su_objectives,      \* set-up: the --objectives of the command line ...
    su_ksp,             \* ... and the KSP file
    su_pc,              \* which constructor of main() runs next
    su_error,           \* the exception that ended the set-up
    objectives,         \* the Objectives object
    su_flows,           \* the dictionary of Flow objects
    network,            \* the Network object
    ga_operators,       \* the GaOperators object
    parameters,         \* nsga2: num_generations and xml_save_frequency
    nsga2_pc,           \* the position of nsga2 in its code
    gen,                \* the loop variable of nsga2
    ga_results,         \* the GaResults object
    ga_stats,           \* the GaStatistics object
    result_xml          \* the result document: the elements appended

vars == << topo, pc, op, cur, chromosome_1, chromosome_2, input_1, input_2,
           pre_repair_1, pre_repair_2, error, passes, repairs_carried_out,
           current_operation, mutation_operation, mutated_flows, paths_visited,
           re_values, re_excess, re_outcome,
           ev_topo, ev_chromosome, ev_result,
           su_objectives, su_ksp, su_pc, su_error, objectives, su_flows, network,
           ga_operators,
           parameters, nsga2_pc, gen, ga_results, ga_stats, result_xml >>

gaVars == << topo, pc, op, cur, chromosome_1, chromosome_2, input_1, input_2,
             pre_repair_1, pre_repair_2, error, passes, repairs_carried_out,
             current_operation, mutation_operation, mutated_flows, paths_visited >>

reVars == << re_values, re_excess, re_outcome >>

evVars == << ev_topo, ev_chromosome, ev_result >>

setupVars == << su_objectives, su_ksp, su_pc, su_error, objectives, su_flows, network,
                ga_operators >>

runVars == << parameters, nsga2_pc, gen, ga_results, ga_stats, result_xml >>

---------------------------------------------------------------------------
(* Numbers *)

\* link_usage += (chromosome[ack_path] * 0.0458): 0.0458 = 229 / 5000
AckNum == 229
AckDen == 5000

\* one rate unit in fixed point
Unit == AckDen * AckDen

Rate(n) == n * Unit

\* largest gene (in rate units) of a chromosome handed to an operator
MaxRate == 2

\* remove_excess on its own: longest vector and largest entry (rate units)
MaxLen == 3
MaxValue == 3

Min2(a, b) == IF a < b THEN a ELSE b
Max2(a, b) == IF a > b THEN a ELSE b

RECURSIVE SumSeq(_)
SumSeq(s) == IF s = << >> THEN 0 ELSE Head(s) + SumSeq(Tail(s))

RECURSIVE MinSeq(_)
MinSeq(s) == IF Len(s) = 1 THEN s[1] ELSE Min2(Head(s), MinSeq(Tail(s)))

\* random.shuffle: every order of 1..n
Perms(n) == { f \in [1..n -> 1..n] : \A i, j \in 1..n : f[i] = f[j] => i = j }

\* math.isclose(value, 0, abs_tol=ACCURACY_ZERO_VALUE) and
\* math.isclose(value, 0, abs_tol=ACCURACY_VALUE): modules/definitions.py sets
\* the tolerances; they are below the resolution 1/Unit of this model.
IsCloseToZero(value) == value = 0

---------------------------------------------------------------------------
(* remove_excess(values, excess) *)

Raised(exception) == [status |-> exception, values |-> << >>]
Returned(values)  == [status |-> "ok", values |-> values]

\* random.uniform(a, b) = a + (b - a) * random(): a value between a and b,
\* whichever is larger.  The draws kept are the two ends and the whole rate
\* units between them.
UniformDraws(a, b) ==
    LET lo == Min2(a, b)
        hi == Max2(a, b)
    IN  {lo, hi} \cup { Rate(g) : g \in { h \in (lo \div Unit)..(hi \div Unit) :
                                            Rate(h) >= lo /\ Rate(h) <= hi } }

\* min_value and max_value of step k with x_sum = sum(x[0:k]), but with
\* min_value = 0: no account of what the elements after k can still absorb.
DrawIntervalWithoutLowerBound(y, z, x_sum, k) ==
    [min_value |-> 0, max_value |-> Min2(y[k], z - x_sum)]

\* min_value and max_value of step k (1..n-1) with x_sum = sum(x[0:k]).
\* y and z are the code's y and z multiplied by total (> 0), and so is x.
DrawInterval(y, z, x_sum, k) ==
    LET y_sum == SumSeq(SubSeq(y, k + 1, Len(y)))
    IN  [min_value |-> Max2(0, z - x_sum - y_sum),
         max_value |-> Min2(y[k], z - x_sum)]

\* The loop "for k in range(n - 1)" and the final x.append(z - sum(x)).
RECURSIVE DrawX(_, _, _)
DrawX(y, z, x) ==
    LET n == Len(y)
        k == Len(x) + 1
    IN  IF k > n - 1
        THEN { Append(x, z - SumSeq(x)) }
        ELSE LET interval == DrawInterval(y, z, SumSeq(x), k)
             IN  UNION { DrawX(y, z, Append(x, d)) :
                            d \in UniformDraws(interval.min_value, interval.max_value) }

\* The values x_sum = sum(x[0:k]) can have when step k (1..n) is entered
RECURSIVE XSums(_, _, _)
XSums(y, z, k) ==
    IF k = 1
    THEN { 0 }
    ELSE UNION { LET interval == DrawInterval(y, z, x_sum, k - 1)
                 IN  { x_sum + d :
                         d \in UniformDraws(interval.min_value, interval.max_value) } :
                 x_sum \in XSums(y, z, k - 1) }

\* From sorted_x to the return statement, for one shuffle and one x.
RepairedValues(values, excess, y_index_shuffled, x) ==
    LET n == Len(values)
        sorted_x == [idx \in 1..n |->
                        x[CHOOSE i \in 1..n : y_index_shuffled[i] = idx]]
        repaired_values == [idx \in 1..n |-> values[idx] - sorted_x[idx]]
    IN  IF \E idx \in 1..n : ~IsCloseToZero(repaired_values[idx])
                                /\ repaired_values[idx] < 0
        THEN Raised("NegativeNumberFound")
        ELSE IF ~IsCloseToZero(SumSeq(repaired_values) - (SumSeq(values) - excess))
        THEN Raised("ExcessRemovalFailed")
        ELSE Returned(repaired_values)

\* Every outcome remove_excess can have on (values, excess).
RemoveExcess(values, excess) ==
    LET total == SumSeq(values)
        n == Len(values)
    IN  IF excess > total
        THEN { Raised("ExcessExceededTotal") }
        ELSE IF total = 0
        THEN { Raised("ZeroDivisionError") }     \* z = excess / total
        ELSE UNION { { RepairedValues(values, excess, shuffled, x) :
                         x \in DrawX([i \in 1..n |-> values[shuffled[i]]], excess, << >>) } :
                     shuffled \in Perms(n) }

---------------------------------------------------------------------------
(* remove_excess called on its own, as tests/excess_removal.py does *)

Vectors == UNION { [1..n -> { Rate(v) : v \in 0..MaxValue }] : n \in 0..MaxLen }

NoOutcome == [status |-> "pending", values |-> << >>]

ReUnused == re_values = << >> /\ re_excess = 0 /\ re_outcome = NoOutcome

NotBuilt == [status |-> "none"]

SetupUnused ==
    /\ su_objectives = << >> /\ su_ksp = << >>
    /\ su_pc = "unused" /\ su_error = "none"
    /\ objectives = NotBuilt /\ su_flows = NotBuilt /\ network = NotBuilt
    /\ ga_operators = NotBuilt

\* the operators, and the evaluator, not in use
GaUnused ==
    /\ topo = << >> /\ pc = "idle" /\ op = "none" /\ cur = 1
    /\ chromosome_1 = << >> /\ chromosome_2 = << >>
    /\ input_1 = << >> /\ input_2 = << >>
    /\ pre_repair_1 = << >> /\ pre_repair_2 = << >>
    /\ error = "none" /\ passes = 0 /\ repairs_carried_out = FALSE
    /\ current_operation = "NO_OP" /\ mutation_operation = "NONE"
    /\ mutated_flows = << >> /\ paths_visited = << >>

EvUnused == ev_topo = << >> /\ ev_chromosome = << >> /\ ev_result = NoOutcome

\* nsga2 not run
RunUnused ==
    /\ parameters = << >> /\ nsga2_pc = "unused" /\ gen = 0
    /\ ga_results = NotBuilt /\ ga_stats = NotBuilt /\ result_xml = NotBuilt

InitRE ==
    /\ re_values \in Vectors
    /\ re_excess \in { Rate(e) : e \in 0..(SumSeq(re_values) \div Unit) + 1 }
    /\ re_outcome = NoOutcome
    /\ GaUnused
    /\ EvUnused
    /\ SetupUnused
    /\ RunUnused

CallRemoveExcess ==
    /\ re_outcome = NoOutcome
    /\ re_outcome' \in RemoveExcess(re_values, re_excess)
    /\ UNCHANGED << re_values, re_excess >>
    /\ UNCHANGED << gaVars, evVars, setupVars, runVars >>

NextRE == CallRemoveExcess

SpecRE == InitRE /\ [][NextRE]_vars

---------------------------------------------------------------------------
(* The topology model: Network, Flow, Path, Link *)

Link(capacity, cost) == [capacity |-> capacity, cost |-> cost]
Path(links, cost) == [links |-> links, cost |-> cost]
Flow(requested_rate, paths) == [requested_rate |-> requested_rate, paths |-> paths]

\* Two links of capacity 10, one flow requesting 15 over two one-link paths.
ScenarioTopo ==
    [ links |-> << Link(Rate(10), 1), Link(Rate(10), 2) >>,
      paths |-> << Path(<<1>>, 1), Path(<<2>>, 2) >>,
      flows |-> << Flow(Rate(15), <<1, 2>>) >>,
      link_ack_path_map |-> << << >>, << >> >> ]

\* Two flows; path 2 of flow 1 shares link 1 with path 1 and link 2 with flow 2.
SharedTopo ==
    [ links |-> << Link(Rate(2), 1), Link(Rate(1), 2) >>,
      paths |-> << Path(<<1>>, 1), Path(<<1, 2>>, 3), Path(<<2>>, 2) >>,
      flows |-> << Flow(Rate(2), <<1, 2>>), Flow(Rate(2), <<3>>) >>,
      link_ack_path_map |-> << << >>, << >> >> ]

\* Two flows in opposite directions: each link carries one flow's data and
\* the other flow's acknowledgements.
AckTopo ==
    [ links |-> << Link(Rate(2), 1), Link(Rate(1), 1) >>,
      paths |-> << Path(<<1>>, 1), Path(<<2>>, 1) >>,
      flows |-> << Flow(Rate(2), <<1>>), Flow(Rate(1), <<2>>) >>,
      link_ack_path_map |-> << <<2>>, <<1>> >> ]

\* One flow over a fast link whose acknowledgements return over a slow link
\* that carries no data path.
AckOnlyTopo ==
    [ links |-> << Link(Rate(30), 1), Link(Rate(1), 1) >>,
      paths |-> << Path(<<1>>, 1) >>,
      flows |-> << Flow(Rate(30), <<1>>) >>,
      link_ack_path_map |-> << << >>, <<1>> >> ]

\* The smallest network: one flow over its one path over one link.
SingleLinkTopo ==
    [ links |-> << Link(Rate(1), 1) >>,
      paths |-> << Path(<<1>>, 1) >>,
      flows |-> << Flow(Rate(2), <<1>>) >>,
      link_ack_path_map |-> << << >> >> ]

\* One flow requesting more than link 1 carries, over two paths that both
\* traverse link 1.
BottleneckTopo ==
    [ links |-> << Link(Rate(1), 1), Link(Rate(1), 1) >>,
      paths |-> << Path(<<1>>, 1), Path(<<1, 2>>, 2) >>,
      flows |-> << Flow(Rate(2), <<1, 2>>) >>,
      link_ack_path_map |-> << << >>, << >> >> ]

Topologies ==
    { ScenarioTopo, SharedTopo, AckTopo, AckOnlyTopo, SingleLinkTopo, BottleneckTopo }

NumLinks(t) == Len(t.links)
NumPaths(t) == Len(t.paths)
NumFlows(t) == Len(t.flows)

SeqToSet(s) == { s[i] : i \in 1..Len(s) }

\* Network._create_network_matrix and Network._generate_network_matrix
NetworkMatrix(t) ==
    [ p \in 1..NumPaths(t) |->
        [ l \in 1..NumLinks(t) |->
            IF l \in SeqToSet(t.paths[p].links) THEN 1 ELSE 0 ] ]

GetLinkCapacity(t, link_id) == t.links[link_id].capacity

GetAckPathsUsedByLink(t, link_id) == t.link_ack_path_map[link_id]

\* link_column = actual_network_matrix[:, link_id]
LinkColumn(t, chromosome, link_id) ==
    [ p \in 1..NumPaths(t) |-> chromosome[p] * NetworkMatrix(t)[p][link_id] ]

\* the sum of chromosome[ack_path] over the ack paths of the link
AckRate(t, chromosome, link_id) ==
    LET ack_paths == GetAckPathsUsedByLink(t, link_id)
    IN  SumSeq([ i \in 1..Len(ack_paths) |-> chromosome[ack_paths[i]] ])

\* link_usage of _validate_link_capacity_constraint: the data on the link
\* plus 0.0458 times the rate of the ack paths routed over it.  LinkUsage is
\* its whole part and LinkUsageFraction what is left, in AckDen-ths.
LinkUsage(t, chromosome, link_id) ==
    LET ack == AckRate(t, chromosome, link_id)
    IN  SumSeq(LinkColumn(t, chromosome, link_id))
        + (ack \div AckDen) * AckNum + ((ack % AckDen) * AckNum) \div AckDen

LinkUsageFraction(t, chromosome, link_id) ==
    ((AckRate(t, chromosome, link_id) % AckDen) * AckNum) % AckDen

\* np.sum(act_net_mat[:, link_id]): the data on the link alone
DataUsage(t, chromosome, link_id) == SumSeq(LinkColumn(t, chromosome, link_id))

FlowRates(t, chromosome, f) ==
    [ i \in 1..Len(t.flows[f].paths) |-> chromosome[t.flows[f].paths[i]] ]

---------------------------------------------------------------------------
(* Constraint repair *)

Outcome(status, chromosome) == [status |-> status, chromosome |-> chromosome]

\* the slip of taking the whole rate of the flow for its excess
ExcessFlowWithoutRequest(t, chromosome, f) == SumSeq(FlowRates(t, chromosome, f))

\* excess_flow = sum(data_per_path) - flow.requested_rate
ExcessFlow(t, chromosome, f) ==
    SumSeq(FlowRates(t, chromosome, f)) - t.flows[f].requested_rate

\* the slip of repairing the copy data_per_path and not writing it back
WriteFlowBackDropped(t, chromosome, f, data_per_path) == chromosome

\* the slip of writing data_per_path back against the order it was read in
WriteFlowBackReversed(t, chromosome, f, data_per_path) ==
    [ p \in 1..NumPaths(t) |->
        IF \E i \in 1..Len(t.flows[f].paths) : t.flows[f].paths[i] = p
        THEN data_per_path[Len(t.flows[f].paths) + 1
                           - CHOOSE i \in 1..Len(t.flows[f].paths) : t.flows[f].paths[i] = p]
        ELSE chromosome[p] ]

\* for index, path_id in enumerate(flow.paths):
\*     chromosome[path_id] = data_per_path[index]
WriteFlowBack(t, chromosome, f, data_per_path) ==
    [ p \in 1..NumPaths(t) |->
        IF \E i \in 1..Len(t.flows[f].paths) : t.flows[f].paths[i] = p
        THEN data_per_path[CHOOSE i \in 1..Len(t.flows[f].paths) : t.flows[f].paths[i] = p]
        ELSE chromosome[p] ]

\* _validate_flow_constraint from flow f on: every outcome
RECURSIVE ValidateFlowsFrom(_, _, _)
ValidateFlowsFrom(t, chromosome, f) ==
    IF f > NumFlows(t)
    THEN { Outcome("ok", chromosome) }
    ELSE IF ExcessFlow(t, chromosome, f) > 0
    THEN UNION { IF o.status = "ok"
                 THEN ValidateFlowsFrom(t, WriteFlowBack(t, chromosome, f, o.values), f + 1)
                 ELSE { Outcome(o.status, chromosome) } :
                 o \in RemoveExcess(FlowRates(t, chromosome, f), ExcessFlow(t, chromosome, f)) }
    ELSE ValidateFlowsFrom(t, chromosome, f + 1)

\* the slip of leaving the flow repair out
ValidateFlowConstraintSkipped(t, chromosome) == { Outcome("ok", chromosome) }

ValidateFlowConstraint(t, chromosome) == ValidateFlowsFrom(t, chromosome, 1)

\* the slip of comparing the data on the link alone with its capacity
OverProvisionedDataOnly(t, chromosome, link_id) ==
    DataUsage(t, chromosome, link_id) > GetLinkCapacity(t, link_id)

\* if link_usage > link_capacity
OverProvisioned(t, chromosome, link_id) ==
    \/ LinkUsage(t, chromosome, link_id) > GetLinkCapacity(t, link_id)
    \/ /\ LinkUsage(t, chromosome, link_id) = GetLinkCapacity(t, link_id)
       /\ LinkUsageFraction(t, chromosome, link_id) > 0

\* the slip of taking the repaired column for the chromosome
WriteLinkBackWholeColumn(t, chromosome, link_id, repaired_link) == repaired_link

\* for path_id in non_zero_paths: chromosome[path_id] = repaired_link[path_id]
WriteLinkBack(t, chromosome, link_id, repaired_link) ==
    [ p \in 1..NumPaths(t) |->
        IF LinkColumn(t, chromosome, link_id)[p] > 0
        THEN repaired_link[p]
        ELSE chromosome[p] ]

\* the slip of taking capacity - usage for the excess of the link
RepairLinkSignSlip(t, chromosome, link_id) ==
    LET excess_capacity == GetLinkCapacity(t, link_id) - LinkUsage(t, chromosome, link_id)
    IN  { IF o.status = "ok"
          THEN Outcome("ok", WriteLinkBack(t, chromosome, link_id, o.values))
          ELSE Outcome(o.status, chromosome) :
          o \in RemoveExcess(LinkColumn(t, chromosome, link_id), excess_capacity) }

\* The repair of one over-provisioned link: every outcome
RepairLink(t, chromosome, link_id) ==
    LET excess_capacity == LinkUsage(t, chromosome, link_id) - GetLinkCapacity(t, link_id)
    IN  { IF o.status = "ok"
          THEN Outcome("ok", WriteLinkBack(t, chromosome, link_id, o.values))
          ELSE Outcome(o.status, chromosome) :
          o \in RemoveExcess(LinkColumn(t, chromosome, link_id), excess_capacity) }

---------------------------------------------------------------------------
(* The chromosome factory *)

\* min(flow.requested_rate, min_link_capacity)
TentativeRate(t, f, p) ==
    Min2(t.flows[f].requested_rate,
         MinSeq([ i \in 1..Len(t.paths[p].links) |->
                    GetLinkCapacity(t, t.paths[p].links[i]) ]))

FlowOfPath(t, p) == CHOOSE f \in 1..NumFlows(t) : p \in SeqToSet(t.flows[f].paths)

\* random.sample(list(flow.paths.values()), random.randint(1, num_paths)) for
\* every flow: any set of paths with at least one path of each flow
PathsToUse(t) ==
    { S \in SUBSET (1..NumPaths(t)) :
        \A f \in 1..NumFlows(t) : S \cap SeqToSet(t.flows[f].paths) # {} }

\* the chromosome generate_chromosome hands to _validate_chromosome
TentativeChromosome(t, paths_to_use) ==
    [ p \in 1..NumPaths(t) |->
        IF p \in paths_to_use THEN TentativeRate(t, FlowOfPath(t, p), p) ELSE 0 ]

---------------------------------------------------------------------------
(* Crossover *)

\* the slip of swapping one gene of the flow (its first path) instead of all
SwapFlowFirstPathOnly(t, pair, f) ==
    LET first == t.flows[f].paths[1]
    IN  << [ pair[1] EXCEPT ![first] = pair[2][first] ],
           [ pair[2] EXCEPT ![first] = pair[1][first] ] >>

\* the slip of swapping without the temporary: chromosome_1 takes
\* chromosome_2's genes, and chromosome_2 then takes them back from chromosome_1
SwapFlowNoTemp(t, pair, f) ==
    LET ids == SeqToSet(t.flows[f].paths)
    IN  << [ p \in 1..NumPaths(t) |-> IF p \in ids THEN pair[2][p] ELSE pair[1][p] ],
           pair[2] >>

\* for path_id in flow_path_ids: swap chromosome_1[path_id], chromosome_2[path_id]
\* (pair is << chromosome_1, chromosome_2 >>)
SwapFlow(t, pair, f) ==
    LET ids == SeqToSet(t.flows[f].paths)
    IN  << [ p \in 1..NumPaths(t) |-> IF p \in ids THEN pair[2][p] ELSE pair[1][p] ],
           [ p \in 1..NumPaths(t) |-> IF p \in ids THEN pair[1][p] ELSE pair[2][p] ] >>

\* for flow in self.flows.values(): if random.random() < random_split_ratio: swap
\* (swapped is the set of flows the draws swap; any set can come out)
RECURSIVE SwapFlowsFrom(_, _, _, _)
SwapFlowsFrom(t, pair, swapped, f) ==
    IF f > NumFlows(t)
    THEN pair
    ELSE SwapFlowsFrom(t, IF f \in swapped THEN SwapFlow(t, pair, f) ELSE pair,
                       swapped, f + 1)

---------------------------------------------------------------------------
(* Mutation *)

\* parameters.mutation_fraction (0 <= mutation_fraction <= 1), in halves
MutationFractions == 0..2

\* math.ceil(self.mutation_fraction * num_flows)
NumFlowsToMutate(t, halves) == (halves * NumFlows(t) + 1) \div 2

\* random.sample(list(self.flows.values()), num_flows_to_mutate): the flows
\* in the order they come out
RECURSIVE Samples(_, _)
Samples(S, n) ==
    IF n = 0
    THEN { << >> }
    ELSE UNION { { << e >> \o rest : rest \in Samples(S \ {e}, n - 1) } : e \in S }

\* every order of a set of paths (random.shuffle(paths_to_use))
Orders(S) == Samples(S, Cardinality(S))

\* the slip of subtracting the wrong way round
HeadroomSignSlip(t, chromosome, link_id) ==
    DataUsage(t, chromosome, link_id) - GetLinkCapacity(t, link_id)

\* link_remaining_capacity[link_id] = link_capacity - link_usage
Headroom(t, chromosome, link_id) ==
    GetLinkCapacity(t, link_id) - DataUsage(t, chromosome, link_id)

\* the slip of returning after the first path, whether or not the request is met
AssignFromFirstPathOnly(t, paths_to_use, i, remaining_data_rate, link_remaining_capacity, chromosome) ==
    IF i > Len(paths_to_use)
    THEN chromosome
    ELSE LET path_id == paths_to_use[i]
             links == t.paths[path_id].links
             min_remaining_capacity ==
                 MinSeq([ j \in 1..Len(links) |-> link_remaining_capacity[links[j]] ])
         IN  [ chromosome EXCEPT
                 ![path_id] = Min2(remaining_data_rate, min_remaining_capacity) ]

\* the slip of leaving link_remaining_capacity as it was after a path is filled
RECURSIVE AssignFromWithoutLinkUpdate(_, _, _, _, _, _)
AssignFromWithoutLinkUpdate(t, paths_to_use, i, remaining_data_rate, link_remaining_capacity, chromosome) ==
    IF i > Len(paths_to_use)
    THEN chromosome
    ELSE LET path_id == paths_to_use[i]
             links == t.paths[path_id].links
             min_remaining_capacity ==
                 MinSeq([ j \in 1..Len(links) |-> link_remaining_capacity[links[j]] ])
         IN  IF remaining_data_rate < min_remaining_capacity
             THEN [ chromosome EXCEPT ![path_id] = remaining_data_rate ]
             ELSE AssignFromWithoutLinkUpdate(t, paths_to_use, i + 1,
                             remaining_data_rate - min_remaining_capacity,
                             link_remaining_capacity,
                             [ chromosome EXCEPT ![path_id] = min_remaining_capacity ])

\* The loop of _assign_data_rate_on_paths from the i-th shuffled path on.
RECURSIVE AssignFrom(_, _, _, _, _, _)
AssignFrom(t, paths_to_use, i, remaining_data_rate, link_remaining_capacity, chromosome) ==
    IF i > Len(paths_to_use)
    THEN chromosome
    ELSE LET path_id == paths_to_use[i]
             links == t.paths[path_id].links
             min_remaining_capacity ==
                 MinSeq([ j \in 1..Len(links) |-> link_remaining_capacity[links[j]] ])
         IN  IF remaining_data_rate < min_remaining_capacity
             THEN [ chromosome EXCEPT ![path_id] = remaining_data_rate ]
             ELSE AssignFrom(t, paths_to_use, i + 1,
                             remaining_data_rate - min_remaining_capacity,
                             [ l \in 1..NumLinks(t) |->
                                 IF l \in SeqToSet(links)
                                 THEN link_remaining_capacity[l] - min_remaining_capacity
                                 ELSE link_remaining_capacity[l] ],
                             [ chromosome EXCEPT ![path_id] = min_remaining_capacity ])

\* _assign_data_rate_on_paths, paths_to_use already shuffled
AssignDataRateOnPaths(t, f, paths_to_use, chromosome) ==
    AssignFrom(t, paths_to_use, 1, t.flows[f].requested_rate,
               [ l \in 1..NumLinks(t) |-> Headroom(t, chromosome, l) ], chromosome)

FlowPaths(t, f) == SeqToSet(t.flows[f].paths)

MinPathCost(t, f) ==
    MinSeq([ i \in 1..Len(t.flows[f].paths) |-> t.paths[t.flows[f].paths[i]].cost ])

\* The sets of paths each strategy can hand to _assign_data_rate_on_paths.
\* _min_path_mutation: any number of paths from 0 to k, any sample of them
MinPathCandidates(t, f) == SUBSET FlowPaths(t, f)

\* _min_cost_mutation: a path is taken with probability 0.95, or
\* 0.95 * (min_path_cost / path.cost) when it is not a cheapest path
MinCostCandidates(t, f) ==
    SUBSET { p \in FlowPaths(t, f) :
                t.paths[p].cost = MinPathCost(t, f) \/ MinPathCost(t, f) > 0 }

\* _min_path_std_dev_mutation: the base path, and every other path with
\* probability 1 - |cost difference| / (largest difference + 1), which is 1
\* for a path of the base path's cost
MinPathStdDevCandidates(t, f) ==
    IF Cardinality(FlowPaths(t, f)) > 1
    THEN UNION { { {base} \cup same \cup others :
                     others \in SUBSET { p \in FlowPaths(t, f) :
                                           t.paths[p].cost # t.paths[base].cost } } :
                 base \in FlowPaths(t, f),
                 same \in { { p \in FlowPaths(t, f) : t.paths[p].cost = t.paths[b].cost } :
                            b \in FlowPaths(t, f) } }
    ELSE { FlowPaths(t, f) }

\* _max_flow_mutation: all the paths of the flow
MaxFlowCandidates(t, f) == { FlowPaths(t, f) }

Candidates(t, f, mutation_type) ==
    CASE mutation_type = "MIN_PATH" -> MinPathCandidates(t, f)
      [] mutation_type = "MIN_COST" -> MinCostCandidates(t, f)
      [] mutation_type = "MIN_PATH_STD_DEV" -> MinPathStdDevCandidates(t, f)
      [] mutation_type = "MAX_FLOW" -> MaxFlowCandidates(t, f)

\* the slip of resetting every path of the chromosome
ResetFlowAllPaths(t, chromosome, f) == [ p \in 1..NumPaths(t) |-> 0 ]

\* for path_id in flow.get_path_ids(): chromosome[path_id] = 0
ResetFlow(t, chromosome, f) ==
    [ p \in 1..NumPaths(t) |-> IF p \in FlowPaths(t, f) THEN 0 ELSE chromosome[p] ]

\* rand_num = random.random(), as the quarter of [0, 1) it falls in
RandomQuarters == 0..3

\* if rand_num < 0.25 ... elif rand_num < 0.50 ... elif rand_num < 0.75 ... else
MutationTypeDrawn(rand_num) ==
    IF rand_num < 1 THEN "MIN_PATH"
    ELSE IF rand_num < 2 THEN "MIN_COST"
    ELSE IF rand_num < 3 THEN "MIN_PATH_STD_DEV"
    ELSE "MAX_FLOW"

\* The body of the loop of mutate_chromosome for one flow and one rand_num:
\* every chromosome it can leave.  A strategy that selects no path returns
\* the chromosome as it is after the reset.
MutateFlowBy(t, chromosome, f, rand_num) ==
    UNION { IF paths = {}
            THEN { ResetFlow(t, chromosome, f) }
            ELSE { AssignDataRateOnPaths(t, f, order, ResetFlow(t, chromosome, f)) :
                     order \in Orders(paths) } :
            paths \in Candidates(t, f, MutationTypeDrawn(rand_num)) }

\* The loop of mutate_chromosome over flows_to_mutate
RECURSIVE MutateFlowsBy(_, _, _, _)
MutateFlowsBy(t, chromosome, flows_to_mutate, rand_nums) ==
    IF flows_to_mutate = << >>
    THEN { chromosome }
    ELSE UNION { MutateFlowsBy(t, c, Tail(flows_to_mutate), Tail(rand_nums)) :
                   c \in MutateFlowBy(t, chromosome, Head(flows_to_mutate), Head(rand_nums)) }

---------------------------------------------------------------------------
(* The operators as a state machine *)

\* Chromosomes handed to an operator: each gene is a whole number of rate
\* units up to MaxRate, or the rate the factory puts on that path.
InputRates(t, p) ==
    { Rate(r) : r \in 0..MaxRate } \cup { TentativeRate(t, FlowOfPath(t, p), p) }

Chromosomes(t) ==
    { c \in [1..NumPaths(t) -> UNION { InputRates(t, p) : p \in 1..NumPaths(t) }] :
        \A p \in 1..NumPaths(t) : c[p] \in InputRates(t, p) }

Init ==
    /\ topo \in Topologies
    /\ pc = "idle" /\ op = "none" /\ cur = 1
    /\ chromosome_1 = << >> /\ chromosome_2 = << >>
    /\ input_1 = << >> /\ input_2 = << >>
    /\ pre_repair_1 = << >> /\ pre_repair_2 = << >>
    /\ error = "none" /\ passes = 0 /\ repairs_carried_out = FALSE
    /\ current_operation = "NO_OP" /\ mutation_operation = "NONE"
    /\ mutated_flows = << >> /\ paths_visited = << >>
    /\ ReUnused
    /\ EvUnused
    /\ SetupUnused
    /\ RunUnused

\* entering _validate_link_capacity_constraint
EnterLinkRepair(which) ==
    /\ pc' = "link_repair"
    /\ cur' = which
    /\ passes' = 0
    /\ repairs_carried_out' = FALSE

\* an exception leaves the call
Raise(exception) ==
    /\ pc' = "raised"
    /\ error' = exception

\* generate_chromosome up to the call of _validate_link_capacity_constraint
GenerateChromosome ==
    /\ pc = "idle"
    /\ op' = "generate"
    /\ input_1' = << >> /\ input_2' = << >>
    /\ pre_repair_1' = << >> /\ pre_repair_2' = << >>
    /\ chromosome_2' = << >>
    /\ \E paths_to_use \in PathsToUse(topo) :
       \E o \in ValidateFlowConstraint(topo, TentativeChromosome(topo, paths_to_use)) :
          /\ chromosome_1' = o.chromosome
          /\ IF o.status = "ok"
             THEN EnterLinkRepair(1) /\ error' = "none"
             ELSE Raise(o.status) /\ UNCHANGED << cur, passes, repairs_carried_out >>
    /\ UNCHANGED << topo, current_operation >>
    /\ UNCHANGED << mutation_operation, mutated_flows, paths_visited >>
    /\ UNCHANGED << reVars, evVars, setupVars, runVars >>

\* _validate_flow_constraint called on a chromosome
CallValidateFlowConstraint ==
    /\ pc = "idle"
    /\ op' = "validate_flow"
    /\ \E c \in Chromosomes(topo) :
       \E o \in ValidateFlowConstraint(topo, c) :
          /\ input_1' = c
          /\ chromosome_1' = o.chromosome
          /\ IF o.status = "ok"
             THEN pc' = "done" /\ error' = "none"
             ELSE Raise(o.status)
    /\ input_2' = << >> /\ chromosome_2' = << >>
    /\ pre_repair_1' = << >> /\ pre_repair_2' = << >>
    /\ UNCHANGED << topo, cur, passes, repairs_carried_out, current_operation >>
    /\ UNCHANGED << mutation_operation, mutated_flows, paths_visited >>
    /\ UNCHANGED << reVars, evVars, setupVars, runVars >>

\* _validate_chromosome called on a chromosome, up to the call of
\* _validate_link_capacity_constraint
CallValidateChromosome ==
    /\ pc = "idle"
    /\ op' = "validate"
    /\ \E c \in Chromosomes(topo) :
       \E o \in ValidateFlowConstraint(topo, c) :
          /\ input_1' = c
          /\ pre_repair_1' = c
          /\ chromosome_1' = o.chromosome
          /\ IF o.status = "ok"
             THEN EnterLinkRepair(1) /\ error' = "none"
             ELSE Raise(o.status) /\ UNCHANGED << cur, passes, repairs_carried_out >>
    /\ input_2' = << >> /\ chromosome_2' = << >> /\ pre_repair_2' = << >>
    /\ UNCHANGED << topo, current_operation >>
    /\ UNCHANGED << mutation_operation, mutated_flows, paths_visited >>
    /\ UNCHANGED << reVars, evVars, setupVars, runVars >>

\* _validate_chromosome called on the chromosome it has just returned;
\* pre_repair_1 stays the chromosome of the first call
CallValidateChromosomeAgain ==
    /\ pc = "done" /\ op = "validate"
    /\ op' = "revalidate"
    /\ \E o \in ValidateFlowConstraint(topo, chromosome_1) :
          /\ input_1' = chromosome_1
          /\ chromosome_1' = o.chromosome
          /\ IF o.status = "ok"
             THEN EnterLinkRepair(1) /\ error' = "none"
             ELSE Raise(o.status) /\ UNCHANGED << cur, passes, repairs_carried_out >>
    /\ UNCHANGED << topo, current_operation, input_2, chromosome_2,
                    pre_repair_1, pre_repair_2 >>
    /\ UNCHANGED << mutation_operation, mutated_flows, paths_visited >>
    /\ UNCHANGED << reVars, evVars, setupVars, runVars >>

\* _assign_data_rate_on_paths called for a flow on some of its paths
CallAssignDataRateOnPaths ==
    /\ pc = "idle"
    /\ op' = "assign"
    /\ \E c \in Chromosomes(topo), f \in 1..NumFlows(topo) :
       \E paths \in (SUBSET FlowPaths(topo, f)) \ { {} } :
       \E order \in Orders(paths) :
          /\ input_1' = c
          /\ mutated_flows' = << f >>
          /\ paths_visited' = order
          /\ chromosome_1' = AssignDataRateOnPaths(topo, f, order, c)
    /\ pc' = "done" /\ error' = "none"
    /\ input_2' = << >> /\ chromosome_2' = << >>
    /\ pre_repair_1' = << >> /\ pre_repair_2' = << >>
    /\ UNCHANGED << topo, cur, passes, repairs_carried_out, current_operation,
                    mutation_operation >>
    /\ UNCHANGED << reVars, evVars, setupVars, runVars >>

\* _min_cost_mutation called for a flow
CallMinCostMutation ==
    /\ pc = "idle"
    /\ op' = "min_cost_mutation"
    /\ \E c \in Chromosomes(topo), f \in 1..NumFlows(topo) :
       \E paths_to_mutate \in MinCostCandidates(topo, f) :
       \E order \in Orders(paths_to_mutate) :
          /\ input_1' = c
          /\ mutated_flows' = << f >>
          /\ paths_visited' = order
          /\ chromosome_1' = IF paths_to_mutate = {}
                             THEN c
                             ELSE AssignDataRateOnPaths(topo, f, order, c)
    /\ pc' = "done" /\ error' = "none"
    /\ input_2' = << >> /\ chromosome_2' = << >>
    /\ pre_repair_1' = << >> /\ pre_repair_2' = << >>
    /\ UNCHANGED << topo, cur, passes, repairs_carried_out, current_operation,
                    mutation_operation >>
    /\ UNCHANGED << reVars, evVars, setupVars, runVars >>

\* _validate_link_capacity_constraint called on a chromosome
CallValidateLinkCapacityConstraint ==
    /\ pc = "idle"
    /\ op' = "validate_link"
    /\ \E c \in Chromosomes(topo) :
          /\ input_1' = c
          /\ chromosome_1' = c
    /\ input_2' = << >> /\ chromosome_2' = << >>
    /\ pre_repair_1' = << >> /\ pre_repair_2' = << >>
    /\ EnterLinkRepair(1) /\ error' = "none"
    /\ UNCHANGED << topo, current_operation >>
    /\ UNCHANGED << mutation_operation, mutated_flows, paths_visited >>
    /\ UNCHANGED << reVars, evVars, setupVars, runVars >>

\* mate_chromosomes up to the repair of the first child
MateChromosomes ==
    /\ pc = "idle"
    /\ op' = "mate"
    /\ current_operation' = "CROSSOVER"
    /\ \E c1 \in Chromosomes(topo), c2 \in Chromosomes(topo) :
       \E swapped \in SUBSET (1..NumFlows(topo)) :
          LET children == SwapFlowsFrom(topo, << c1, c2 >>, swapped, 1)
          IN  /\ input_1' = c1 /\ input_2' = c2
              /\ chromosome_1' = children[1] /\ chromosome_2' = children[2]
              /\ pre_repair_1' = children[1] /\ pre_repair_2' = children[2]
    /\ EnterLinkRepair(1) /\ error' = "none"
    /\ UNCHANGED topo
    /\ UNCHANGED << mutation_operation, mutated_flows, paths_visited >>
    /\ UNCHANGED << reVars, evVars, setupVars, runVars >>

\* mutate_chromosome up to the call of _validate_link_capacity_constraint
MutateChromosome ==
    /\ pc = "idle"
    /\ op' = "mutate"
    /\ current_operation' = "MUTATION"
    /\ \E c \in Chromosomes(topo), mutation_fraction \in MutationFractions :
       \E flows_to_mutate \in Samples(1..NumFlows(topo),
                                      NumFlowsToMutate(topo, mutation_fraction)) :
       \E rand_nums \in [1..Len(flows_to_mutate) -> RandomQuarters] :
       \E mutated \in MutateFlowsBy(topo, c, flows_to_mutate, rand_nums) :
       \E o \in ValidateFlowConstraint(topo, mutated) :
          /\ input_1' = c
          /\ pre_repair_1' = mutated
          /\ chromosome_1' = o.chromosome
          /\ mutated_flows' = flows_to_mutate
          /\ mutation_operation' =
                IF flows_to_mutate = << >>
                THEN mutation_operation
                ELSE MutationTypeDrawn(rand_nums[Len(flows_to_mutate)])
          /\ IF o.status = "ok"
             THEN EnterLinkRepair(1) /\ error' = "none"
             ELSE Raise(o.status) /\ UNCHANGED << cur, passes, repairs_carried_out >>
    /\ input_2' = << >> /\ chromosome_2' = << >> /\ pre_repair_2' = << >>
    /\ UNCHANGED << topo, paths_visited >>
    /\ UNCHANGED << reVars, evVars, setupVars, runVars >>

Current == IF cur = 1 THEN chromosome_1 ELSE chromosome_2

SetCurrent(c) ==
    IF cur = 1
    THEN chromosome_1' = c /\ UNCHANGED chromosome_2
    ELSE chromosome_2' = c /\ UNCHANGED chromosome_1

\* One pass of the while loop that finds an over-provisioned link: the
\* first one in the random order of the links is repaired, then "break".
LinkRepairPass ==
    /\ pc = "link_repair"
    /\ \E link_id \in 1..NumLinks(topo) :
          /\ OverProvisioned(topo, Current, link_id)
          /\ \E o \in RepairLink(topo, Current, link_id) :
                /\ SetCurrent(o.chromosome)
                /\ IF o.status = "ok"
                   THEN UNCHANGED << pc, error >>
                   ELSE Raise(o.status)
    /\ passes' = passes + 1
    /\ repairs_carried_out' = TRUE
    /\ UNCHANGED << topo, op, cur, input_1, input_2, pre_repair_1, pre_repair_2,
                    current_operation >>
    /\ UNCHANGED << mutation_operation, mutated_flows, paths_visited >>
    /\ UNCHANGED << reVars, evVars, setupVars, runVars >>

\* The pass that finds no over-provisioned link: the loop ends and
\* _validate_link_capacity_constraint returns.  mate_chromosomes then repairs
\* its second child; every other caller returns the chromosome.
LinkRepairReturn ==
    /\ pc = "link_repair"
    /\ \A link_id \in 1..NumLinks(topo) : ~OverProvisioned(topo, Current, link_id)
    /\ IF op = "mate" /\ cur = 1
       THEN /\ pc' = "link_repair"
            /\ cur' = 2
            /\ passes' = 0
            /\ repairs_carried_out' = FALSE
       ELSE /\ pc' = "done"
            /\ passes' = passes + 1
            /\ UNCHANGED << cur, repairs_carried_out >>
    /\ UNCHANGED << topo, op, chromosome_1, chromosome_2, input_1, input_2,
                    pre_repair_1, pre_repair_2, error, current_operation >>
    /\ UNCHANGED << mutation_operation, mutated_flows, paths_visited >>
    /\ UNCHANGED << reVars, evVars, setupVars, runVars >>

\* The caller takes the result; the operators are ready for the next call.
Return ==
    /\ pc = "done"
    /\ pc' = "idle"
    /\ op' = "none" /\ cur' = 1
    /\ chromosome_1' = << >> /\ chromosome_2' = << >>
    /\ input_1' = << >> /\ input_2' = << >>
    /\ pre_repair_1' = << >> /\ pre_repair_2' = << >>
    /\ passes' = 0 /\ repairs_carried_out' = FALSE
    /\ mutation_operation' = "NONE"
    /\ mutated_flows' = << >> /\ paths_visited' = << >>
    /\ UNCHANGED << topo, error, current_operation >>
    /\ UNCHANGED << reVars, evVars, setupVars, runVars >>

Next ==
    \/ GenerateChromosome
    \/ CallValidateFlowConstraint
    \/ CallValidateLinkCapacityConstraint
    \/ CallValidateChromosome
    \/ CallValidateChromosomeAgain
    \/ CallAssignDataRateOnPaths
    \/ CallMinCostMutation
    \/ MateChromosomes
    \/ MutateChromosome
    \/ LinkRepairPass
    \/ LinkRepairReturn
    \/ Return

Spec == Init /\ [][Next]_vars

---------------------------------------------------------------------------
(* The fitness evaluator: metrics, bounds, normalisation.  Metrics are     *)
(* rationals << numerator, denominator >> with a positive denominator.     *)

Rat(n, d) == << n, d >>
RatAdd(a, b) == Rat(a[1] * b[2] + b[1] * a[2], a[2] * b[2])
RatDiv(a, b) == Rat(a[1] * b[2], a[2] * b[1])
RatLeq(a, b) == a[1] * b[2] <= b[1] * a[2]
RatLess(a, b) == a[1] * b[2] < b[1] * a[2]

\* largest path cost and largest gene of a chromosome handed to the evaluator
MaxCost == 2
MaxGene == 2

\* statistics.pstdev returns a float: a standard deviation is kept in
\* 1/PStdevResolution, rounded down
PStdevResolution == 100

ISqrt(n) == CHOOSE r \in 0..(MaxCost + 2) * PStdevResolution * 4 :
                r * r <= n /\ n < (r + 1) * (r + 1)

\* statistics.pstdev(path_costs): sqrt(n * sum(x^2) - sum(x)^2) / n
PStdev(path_costs) ==
    LET n == Len(path_costs)
        squares == SumSeq([ i \in 1..n |-> path_costs[i] * path_costs[i] ])
        total == SumSeq(path_costs)
    IN  ISqrt(PStdevResolution * PStdevResolution * (n * squares - total * total)) \div n

RECURSIVE MaxSeq(_)
MaxSeq(s) == IF Len(s) = 1 THEN s[1] ELSE Max2(Head(s), MaxSeq(Tail(s)))

\* [path_id for path_id in flow.get_path_ids() if chromosome[path_id] > 0]
UsedPaths(t, chromosome, f) ==
    SelectSeq(t.flows[f].paths, LAMBDA path_id : chromosome[path_id] > 0)

PathCosts(t, path_ids) == [ i \in 1..Len(path_ids) |-> t.paths[path_ids[i]].cost ]

\* flow.get_path_cost(path_id): the cost of one path of the flow (the Flow
\* class of this tree has get_path_costs only)
GetPathCost(t, f, path_id) == t.paths[path_id].cost

CalculateTotalNetworkFlow(t, chromosome) == Rat(SumSeq(chromosome), 1)

CalculateTotalPathsUsed(t, chromosome) ==
    Rat(Cardinality({ p \in 1..Len(chromosome) : chromosome[p] > 0 }), 1)

\* the realised link usage, each column multiplied by the cost of its link
CalculateTotalNetworkCost(t, chromosome) ==
    Rat(SumSeq([ link_id \in 1..NumLinks(t) |->
                    SumSeq(LinkColumn(t, chromosome, link_id)) * t.links[link_id].cost ]), 1)

MaxFlowSplits(t) == SumSeq([ f \in 1..NumFlows(t) |-> Len(t.flows[f].paths) - 1 ])

TotalFlowSplits(t, chromosome) ==
    SumSeq([ f \in 1..NumFlows(t) |->
                IF Len(UsedPaths(t, chromosome, f)) > 0
                THEN Len(UsedPaths(t, chromosome, f)) - 1 ELSE 0 ])

NumFlowsWithSplit(t, chromosome) ==
    Cardinality({ f \in 1..NumFlows(t) : Len(UsedPaths(t, chromosome, f)) > 1 })

CalculateFlowSplitsMetric(t, chromosome) ==
    RatAdd(Rat(NumFlowsWithSplit(t, chromosome), 1),
           Rat(TotalFlowSplits(t, chromosome), MaxFlowSplits(t) + 1))

\* path_delay_data = {path cost: chromosome[path_id]} over the used paths:
\* of several used paths of one cost the dictionary keeps the last
PathDelayData(t, chromosome, f) ==
    LET used == UsedPaths(t, chromosome, f)
        last(path_delay) == CHOOSE i \in 1..Len(used) :
                                /\ GetPathCost(t, f, used[i]) = path_delay
                                /\ \A j \in i + 1..Len(used) :
                                       GetPathCost(t, f, used[j]) # path_delay
    IN  [ path_delay \in { GetPathCost(t, f, used[i]) : i \in 1..Len(used) } |->
            chromosome[used[last(path_delay)]] ]

RECURSIVE FlowMetricValue(_, _, _)
FlowMetricValue(path_delay_data, keys, lowest_delay_path) ==
    IF keys = {}
    THEN Rat(0, 1)
    ELSE LET path_delay == CHOOSE k \in keys : TRUE
         IN  RatAdd(Rat(path_delay_data[path_delay], (path_delay - lowest_delay_path) + 1),
                    FlowMetricValue(path_delay_data, keys \ {path_delay}, lowest_delay_path))

RECURSIVE SumOfValues(_, _)
SumOfValues(path_delay_data, keys) ==
    IF keys = {}
    THEN 0
    ELSE LET k == CHOOSE q \in keys : TRUE
         IN  path_delay_data[k] + SumOfValues(path_delay_data, keys \ {k})

FlowDelayDistribution(t, chromosome, f) ==
    LET path_delay_data == PathDelayData(t, chromosome, f)
        keys == DOMAIN path_delay_data
        lowest_delay_path ==
            MinSeq([ i \in 1..Len(t.flows[f].paths) |-> GetPathCost(t, f, t.flows[f].paths[i]) ])
    IN  IF keys = {}
        THEN Rat(0, 1)
        ELSE RatDiv(FlowMetricValue(path_delay_data, keys, lowest_delay_path),
                    Rat(SumOfValues(path_delay_data, keys), 1))

RECURSIVE DelayDistributionFrom(_, _, _)
DelayDistributionFrom(t, chromosome, f) ==
    IF f > NumFlows(t)
    THEN Rat(0, 1)
    ELSE RatAdd(FlowDelayDistribution(t, chromosome, f),
                DelayDistributionFrom(t, chromosome, f + 1))

CalculateDelayDistributionMetric(t, chromosome) == DelayDistributionFrom(t, chromosome, 1)

CalculatePathStandardDeviationMetric(t, chromosome) ==
    Rat(SumSeq([ f \in 1..NumFlows(t) |->
                    LET path_costs == PathCosts(t, UsedPaths(t, chromosome, f))
                    IN  IF Len(path_costs) > 1 THEN PStdev(path_costs) ELSE 0 ]),
        PStdevResolution)

CalculateMaxDelayMetric(t, chromosome) ==
    LET total_network_flow == SumSeq(chromosome)
        weighted == SumSeq([ f \in 1..NumFlows(t) |->
                        LET used_paths == UsedPaths(t, chromosome, f)
                        IN  IF Len(used_paths) > 0
                            THEN SumSeq([ i \in 1..Len(used_paths) |-> chromosome[used_paths[i]] ])
                                 * MaxSeq(PathCosts(t, used_paths))
                            ELSE 0 ])
    IN  IF \A f \in 1..NumFlows(t) : Len(UsedPaths(t, chromosome, f)) = 0
        THEN Rat(0, 1)
        ELSE Rat(weighted, total_network_flow)

\* the assertions inside the metric functions
MetricAssertionsHold(t, chromosome) ==
    /\ TotalFlowSplits(t, chromosome) < MaxFlowSplits(t) + 1
    /\ \A f \in 1..NumFlows(t) : RatLeq(FlowDelayDistribution(t, chromosome, f), Rat(1, 1))

\* sorted(flow.get_paths(), key=cost, reverse=True): descending cost, paths
\* of equal cost in their original order
SortedByCostDescending(t, f) ==
    LET paths == t.flows[f].paths
        n == Len(paths)
        before(i, j) == \/ t.paths[paths[i]].cost > t.paths[paths[j]].cost
                        \/ t.paths[paths[i]].cost = t.paths[paths[j]].cost /\ i < j
        order == CHOOSE o \in Perms(n) : \A i, j \in 1..n : before(o[i], o[j]) => i < j
    IN  [ i \in 1..n |-> paths[order[i]] ]

MinLinkCapacity(t, path_id) ==
    MinSeq([ i \in 1..Len(t.paths[path_id].links) |->
                t.links[t.paths[path_id].links[i]].capacity ])

RECURSIVE FlowCostFrom(_, _, _, _)
FlowCostFrom(t, paths, i, remaining_data_rate) ==
    IF i > Len(paths)
    THEN 0
    ELSE LET min_link_capacity == MinLinkCapacity(t, paths[i])
             cost == t.paths[paths[i]].cost
         IN  IF remaining_data_rate < min_link_capacity
             THEN remaining_data_rate * cost
                  + FlowCostFrom(t, paths, i + 1, remaining_data_rate)
             ELSE min_link_capacity * cost
                  + (IF IsCloseToZero(remaining_data_rate - min_link_capacity)
                     THEN 0
                     ELSE FlowCostFrom(t, paths, i + 1,
                                       remaining_data_rate - min_link_capacity))

\* The rates the loop multiplies by path.cost, path by path (the same loop
\* as FlowCostFrom)
RECURSIVE FlowRatesChargedFrom(_, _, _, _)
FlowRatesChargedFrom(t, paths, i, remaining_data_rate) ==
    IF i > Len(paths)
    THEN << >>
    ELSE LET min_link_capacity == MinLinkCapacity(t, paths[i])
         IN  IF remaining_data_rate < min_link_capacity
             THEN << remaining_data_rate >>
                  \o FlowRatesChargedFrom(t, paths, i + 1, remaining_data_rate)
             ELSE << min_link_capacity >>
                  \o (IF IsCloseToZero(remaining_data_rate - min_link_capacity)
                      THEN << >>
                      ELSE FlowRatesChargedFrom(t, paths, i + 1,
                                                remaining_data_rate - min_link_capacity))

GetNetworkCostUpperBound(t) ==
    Rat(SumSeq([ f \in 1..NumFlows(t) |->
                    FlowCostFrom(t, SortedByCostDescending(t, f), 1,
                                 t.flows[f].requested_rate) ]), 1)

GetNetworkPathsUpperBound(t) == Rat(NumPaths(t), 1)

GetFlowSplitsUpperBound(t) == Rat(NumFlows(t) + 1, 1)

GetDelayDistributionUpperBound(t) == Rat(NumFlows(t), 1)

GetNetworkFlowUpperBound(t) ==
    Rat(SumSeq([ f \in 1..NumFlows(t) |-> t.flows[f].requested_rate ]), 1)

GetPathStdDevUpperBound(t) ==
    Rat(SumSeq([ f \in 1..NumFlows(t) |->
                    LET path_costs == PathCosts(t, t.flows[f].paths)
                    IN  PStdev(<< MinSeq(path_costs), MaxSeq(path_costs) >>) ]),
        PStdevResolution)

GetMaxDelayUpperBound(t) ==
    Rat(MaxSeq([ f \in 1..NumFlows(t) |-> MaxSeq(PathCosts(t, t.flows[f].paths)) ]), 1)

\* the built-in metric functions, each with its bound function
Objective(fn_metric_calc, fn_obj_bound) ==
    [fn_metric_calc |-> fn_metric_calc, fn_obj_bound |-> fn_obj_bound]

BuiltInObjectives ==
    << Objective("_calculate_total_network_flow", "_get_network_flow_upper_bound"),
       Objective("_calculate_total_paths_used", "_get_network_paths_upper_bound"),
       Objective("_calculate_total_network_cost", "_get_network_cost_upper_bound"),
       Objective("_calculate_flow_splits_metric", "_get_flow_splits_upper_bound"),
       Objective("_calculate_delay_distribution_metric", "_get_delay_distribution_upper_bound"),
       Objective("_calculate_path_standard_deviation_metric", "_get_path_std_dev_upper_bound"),
       Objective("_calculate_max_delay_metric", "_get_max_delay_upper_bound") >>

\* getattr(self, metric_function_name)(chromosome)
MetricFunction(name, t, chromosome) ==
    CASE name = "_calculate_total_network_flow" -> CalculateTotalNetworkFlow(t, chromosome)
      [] name = "_calculate_total_paths_used" -> CalculateTotalPathsUsed(t, chromosome)
      [] name = "_calculate_total_network_cost" -> CalculateTotalNetworkCost(t, chromosome)
      [] name = "_calculate_flow_splits_metric" -> CalculateFlowSplitsMetric(t, chromosome)
      [] name = "_calculate_delay_distribution_metric"
            -> CalculateDelayDistributionMetric(t, chromosome)
      [] name = "_calculate_path_standard_deviation_metric"
            -> CalculatePathStandardDeviationMetric(t, chromosome)
      [] name = "_calculate_max_delay_metric" -> CalculateMaxDelayMetric(t, chromosome)

\* getattr(self, bound_function_name)(flows)
BoundFunction(name, t) ==
    CASE name = "_get_network_flow_upper_bound" -> GetNetworkFlowUpperBound(t)
      [] name = "_get_network_paths_upper_bound" -> GetNetworkPathsUpperBound(t)
      [] name = "_get_network_cost_upper_bound" -> GetNetworkCostUpperBound(t)
      [] name = "_get_flow_splits_upper_bound" -> GetFlowSplitsUpperBound(t)
      [] name = "_get_delay_distribution_upper_bound" -> GetDelayDistributionUpperBound(t)
      [] name = "_get_path_std_dev_upper_bound" -> GetPathStdDevUpperBound(t)
      [] name = "_get_max_delay_upper_bound" -> GetMaxDelayUpperBound(t)

\* _normalise_value(value, max_value)
NormaliseValue(value, max_value) ==
    IF IsCloseToZero(value[1]) /\ IsCloseToZero(max_value[1])
    THEN [status |-> "ok", value |-> Rat(0, 1)]
    ELSE IF max_value[1] = 0
    THEN [status |-> "ZeroDivisionError", value |-> Rat(0, 1)]
    ELSE LET normalised_value == RatDiv(value, max_value)
         IN  IF RatLess(normalised_value, Rat(0, 1))
             THEN [status |-> "NormalisedBelowZero", value |-> normalised_value]
             ELSE IF RatLess(Rat(1, 1), normalised_value)
             THEN [status |-> "NormalisedAboveOne", value |-> normalised_value]
             ELSE [status |-> "ok", value |-> normalised_value]

\* evaluate_chromosome with every built-in objective configured
EvaluateChromosome(t, chromosome) ==
    LET n == Len(BuiltInObjectives)
        normalised_values ==
            [ i \in 1..n |->
                NormaliseValue(MetricFunction(BuiltInObjectives[i].fn_metric_calc, t, chromosome),
                               BoundFunction(BuiltInObjectives[i].fn_obj_bound, t)) ]
        failed == { i \in 1..n : normalised_values[i].status # "ok" }
    IN  IF ~MetricAssertionsHold(t, chromosome)
        THEN [status |-> "AssertionError", values |-> << >>]
        ELSE IF failed # {}
        THEN [status |-> normalised_values[CHOOSE i \in failed : \A j \in failed : i <= j].status,
              values |-> << >>]
        ELSE [status |-> "ok", values |-> [ i \in 1..n |-> normalised_values[i].value ]]

\* One flow over three paths that share two links, a second flow over the
\* second link; the cost of a path is whatever the KSP file carries for it.
EvalTopo(link_cost, cost) ==
    [ links |-> << Link(2, link_cost), Link(2, link_cost) >>,
      paths |-> << Path(<<1>>, cost[1]), Path(<<2>>, cost[2]),
                   Path(<<1, 2>>, cost[3]), Path(<<2>>, link_cost) >>,
      flows |-> << Flow(3, <<1, 2, 3>>), Flow(1, <<4>>) >>,
      link_ack_path_map |-> << << >>, << >> >> ]

EvalTopologies ==
    { EvalTopo(link_cost, cost) : link_cost \in 1..MaxCost, cost \in [1..3 -> 0..MaxCost] }

InitEval ==
    /\ ev_topo \in EvalTopologies
    /\ ev_chromosome \in [1..NumPaths(ev_topo) -> 0..MaxGene]
    /\ ev_result = NoOutcome
    /\ GaUnused
    /\ ReUnused
    /\ SetupUnused
    /\ RunUnused

CallEvaluateChromosome ==
    /\ ev_result = NoOutcome
    /\ ev_result' = EvaluateChromosome(ev_topo, ev_chromosome)
    /\ UNCHANGED << ev_topo, ev_chromosome >>
    /\ UNCHANGED << gaVars, reVars, setupVars, runVars >>

NextEval == CallEvaluateChromosome

SpecEval == InitEval /\ [][NextEval]_vars

---------------------------------------------------------------------------
(* Set-up, as main() of ga.py runs it: Objectives, parse_flows, Network,   *)
(* GaOperators.  A dictionary is a sequence of its values in insertion     *)
(* order; ids are the ids of the file, counted from 0.                     *)

\* largest link, flow and path id of a KSP file
MaxId == 1

LinkElement(id) == [id |-> id, capacity |-> 1, cost |-> 1]
PathElement(id, links) == [id |-> id, cost |-> Len(links), links |-> links]
FlowElement(id, protocol, paths) ==
    [id |-> id, protocol |-> protocol, requested_rate |-> 1, paths |-> paths]

Ids == 0..MaxId

\* <LinkDetails>: up to two <Link> elements
LinkElementLists ==
    { << >> } \cup { << LinkElement(a) >> : a \in Ids }
              \cup { << LinkElement(a), LinkElement(b) >> : a, b \in Ids }

\* <Paths> of a flow: one or two <Path> elements, the first over link 0
\* (link 1 for an odd flow id), the second over both links
PathElementLists(flow_id) ==
    LET first == << flow_id % 2 >>
        second == << flow_id % 2, 1 - (flow_id % 2) >>
    IN  { << PathElement(a, first) >> : a \in Ids }
        \cup { << PathElement(a, first), PathElement(b, second) >> : a, b \in Ids }

DataFlowElements ==
    UNION { { FlowElement(id, "T", paths) : paths \in PathElementLists(id) } : id \in Ids }

AckFlowElements == { FlowElement(id, "A", << >>) : id \in Ids }

\* <FlowDetails>: one or two <Flow> elements
FlowElementLists ==
    { << a >> : a \in DataFlowElements }
    \cup { << a, b >> : a \in DataFlowElements, b \in DataFlowElements \cup AckFlowElements }

KspFiles == { [links |-> l, flows |-> f] : l \in LinkElementLists, f \in FlowElementLists }

\* a file the whole set-up accepts
ButterflyKsp ==
    [ links |-> << LinkElement(0), LinkElement(1) >>,
      flows |-> << FlowElement(0, "T", << PathElement(0, <<0>>), PathElement(1, <<0, 1>>) >>),
                   FlowElement(1, "T", << PathElement(2, <<1>>) >>) >> ]

HasDuplicateId(elements) ==
    \E i, j \in 1..Len(elements) : i < j /\ elements[i].id = elements[j].id

Failed(exception) == [status |-> exception]

\* Flow.__init__ / Flow._generate_flow_from_element
FlowFromElement(flow_element) ==
    IF HasDuplicateId(flow_element.paths)
    THEN Failed("AssertionError")
    ELSE [status |-> "ok", id |-> flow_element.id,
          requested_rate |-> flow_element.requested_rate,
          paths |-> flow_element.paths]

\* parse_flows
ParseFlowsNoDuplicateCheck(ksp_xml_file_root) ==
    LET data == SelectSeq(ksp_xml_file_root.flows, LAMBDA e : e.protocol # "A")
        parsed == [ i \in 1..Len(data) |-> FlowFromElement(data[i]) ]
    IN  IF \E i \in 1..Len(data) : parsed[i].status # "ok"
        THEN Failed("AssertionError")
        ELSE [status |-> "ok", flows |-> parsed]

ParseFlows(ksp_xml_file_root) ==
    LET data == SelectSeq(ksp_xml_file_root.flows, LAMBDA e : e.protocol # "A")
        parsed == [ i \in 1..Len(data) |-> FlowFromElement(data[i]) ]
    IN  IF \/ \E i \in 1..Len(data) : parsed[i].status # "ok"
           \/ HasDuplicateId(data)
        THEN Failed("AssertionError")
        ELSE [status |-> "ok", flows |-> parsed]

\* Network._generate_link_details
GenerateLinkDetails(ksp_xml_file_root) ==
    IF HasDuplicateId(ksp_xml_file_root.links)
    THEN Failed("AssertionError")
    ELSE IF ksp_xml_file_root.links = << >>
    THEN Failed("RuntimeError")
    ELSE [status |-> "ok", links |-> ksp_xml_file_root.links]

\* Network._generate_link_ack_path_usage_map, for a file without <AckPaths>
GenerateLinkAckPathUsageMap(links) == [ i \in 1..Len(links) |-> << >> ]

\* sum([flow.get_num_paths() for flow in flows.values()])
TotNumPaths(flows) == SumSeq([ i \in 1..Len(flows) |-> Len(flows[i].paths) ])

\* Network._create_network_matrix: row path_id + 1, column link_id + 1
CreateNetworkMatrix(links, flows) ==
    [ row \in 1..TotNumPaths(flows) |-> [ column \in 1..Len(links) |-> 0 ] ]

\* the assignments self.network_matrix[path_id, link_id] = 1
MatrixWrites(flows) ==
    UNION { UNION { { << flows[f].paths[p].id, flows[f].paths[p].links[l] >> :
                        l \in 1..Len(flows[f].paths[p].links) } :
                    p \in 1..Len(flows[f].paths) } :
            f \in 1..Len(flows) }

\* Network._generate_network_matrix
GenerateNetworkMatrixTransposed(links, flows) ==
    LET zeros == CreateNetworkMatrix(links, flows)
        writes == MatrixWrites(flows)
    IN  IF \E w \in writes : w[1] >= Len(zeros) \/ w[2] >= Len(links)
        THEN Failed("IndexError")
        ELSE [status |-> "ok",
              network_matrix |->
                  [ row \in 1..Len(zeros) |->
                      [ column \in 1..Len(links) |->
                          IF << column - 1, row - 1 >> \in writes THEN 1 ELSE 0 ] ]]

GenerateNetworkMatrix(links, flows) ==
    LET zeros == CreateNetworkMatrix(links, flows)
        writes == MatrixWrites(flows)
    IN  IF \E w \in writes : w[1] >= Len(zeros) \/ w[2] >= Len(links)
        THEN Failed("IndexError")
        ELSE [status |-> "ok",
              network_matrix |->
                  [ row \in 1..Len(zeros) |->
                      [ column \in 1..Len(links) |->
                          IF << row - 1, column - 1 >> \in writes THEN 1 ELSE 0 ] ]]

MetricFunctionNames == { BuiltInObjectives[i].fn_metric_calc : i \in 1..Len(BuiltInObjectives) }
BoundFunctionNames == { BuiltInObjectives[i].fn_obj_bound : i \in 1..Len(BuiltInObjectives) }

\* getattr(self, name) over a list of names
GetAttrIgnoringMissing(names, attributes) ==
    [status |-> "ok", functions |-> SelectSeq(names, LAMBDA name : name \in attributes)]

GetAttr(names, attributes) ==
    IF \E i \in 1..Len(names) : names[i] \notin attributes
    THEN Failed("AttributeError")
    ELSE [status |-> "ok", functions |-> names]

\* the bound functions the set-up is run with take the flows only
FlowsOnly(flows) ==
    [ links |-> << >>, paths |-> << >>, link_ack_path_map |-> << >>,
      flows |-> [ i \in 1..Len(flows) |-> Flow(flows[i].requested_rate, << >>) ] ]

\* Network.__init__
NetworkInit(ksp_xml_file_root, flows, objs) ==
    LET link_details == GenerateLinkDetails(ksp_xml_file_root)
    IN  IF link_details.status # "ok"
        THEN link_details
        ELSE
    LET links == link_details.links
        matrix == GenerateNetworkMatrix(links, flows)
    IN  IF matrix.status # "ok"
        THEN matrix
        ELSE
    LET obj_bound_fns == GetAttr([ i \in 1..Len(objs) |-> objs[i].fn_obj_bound ],
                                 BoundFunctionNames)
    IN  IF obj_bound_fns.status # "ok"
        THEN obj_bound_fns
        ELSE [status |-> "ok",
              links |-> links,
              link_ack_path_map |-> GenerateLinkAckPathUsageMap(links),
              network_matrix |-> matrix.network_matrix,
              obj_names |-> [ i \in 1..Len(objs) |-> objs[i].obj_name ],
              obj_bound_values |->
                  [ i \in 1..Len(obj_bound_fns.functions) |->
                      BoundFunction(obj_bound_fns.functions[i], FlowsOnly(flows)) ]]

\* int(text) for the weight texts of the configurations below
WeightTexts == { "1", "-1", "+1", "2", "0", "-100", "0.1", "one" }

IsIntegerText(text) == text \in { "1", "-1", "+1", "2", "0", "-100" }

IntOf(text) ==
    CASE text \in { "1", "+1" } -> 1
      [] text = "-1" -> 0 - 1
      [] text = "2" -> 2
      [] text = "0" -> 0
      [] text = "-100" -> 0 - 100

\* one objective of the list: split at the commas and stripped
ParseObjectiveAnyInteger(split_obj) ==
    IF Len(split_obj) # 4
    THEN Failed("RuntimeError")
    ELSE IF ~IsIntegerText(split_obj[2])
    THEN Failed("ValueError")
    ELSE [status |-> "ok", obj_name |-> split_obj[1], obj_weight |-> IntOf(split_obj[2]),
          fn_metric_calc |-> split_obj[3], fn_obj_bound |-> split_obj[4]]

ParseObjective(split_obj) ==
    IF Len(split_obj) # 4
    THEN Failed("RuntimeError")
    ELSE IF ~IsIntegerText(split_obj[2])
    THEN Failed("ValueError")
    ELSE IF IntOf(split_obj[2]) \notin { 0 - 1, 1 }
    THEN Failed("RuntimeError")
    ELSE [status |-> "ok", obj_name |-> split_obj[1], obj_weight |-> IntOf(split_obj[2]),
          fn_metric_calc |-> split_obj[3], fn_obj_bound |-> split_obj[4]]

\* Objectives._parse_objectives: the first objective that fails ends it
ParseObjectives(objs) ==
    LET parsed == [ i \in 1..Len(objs) |-> ParseObjective(objs[i]) ]
        failed == { i \in 1..Len(objs) : parsed[i].status # "ok" }
    IN  IF failed # {}
        THEN Failed(parsed[CHOOSE i \in failed : \A j \in failed : i <= j].status)
        ELSE [status |-> "ok", objectives |-> parsed]

\* parameters.mutationFunctions and parameters.mutationFunctionProbability
\* (in quarters): the configured mutation functions
ParametersMutationFunctions == << "min_path", "max_flow" >>
ParametersMutationFunctionProbability == << 4, 0 >>

\* the methods mutation_<functionName> that GaOperators.__init__ looks up
MutationFunctionNames == { "min_path", "min_cost", "min_path_std_dev", "max_flow" }

\* self.mutationFunctions: the cumulative probability with each function
CumulativeMutationFunctions ==
    [ i \in 1..Len(ParametersMutationFunctions) |->
        [ probability |-> SumSeq(SubSeq(ParametersMutationFunctionProbability, 1, i)),
          function |-> ParametersMutationFunctions[i] ] ]

\* GaOperators.__init__
GaOperatorsInit(objs) ==
    LET mutation == GetAttr(ParametersMutationFunctions, MutationFunctionNames)
        metric_functions == GetAttr([ i \in 1..Len(objs) |-> objs[i].fn_metric_calc ],
                                    MetricFunctionNames)
    IN  IF mutation.status # "ok"
        THEN mutation
        ELSE IF metric_functions.status # "ok"
        THEN metric_functions
        ELSE [status |-> "ok",
              mutationFunctions |-> CumulativeMutationFunctions,
              metric_functions |-> metric_functions.functions]

\* --objectives: the text of one objective, split at its commas
ObjectiveTexts ==
    UNION { { << "obj", weight, metric, bound >>,
              << "obj", weight, metric >>,
              << "obj", weight, metric, bound, "extra" >> } :
            weight \in WeightTexts,
            metric \in { "_calculate_total_network_flow", "non_existent_function" },
            bound \in { "_get_network_flow_upper_bound", "non_existent_function" } }

NetFlowObjective ==
    << "net_flow", "1", "_calculate_total_network_flow", "_get_network_flow_upper_bound" >>

ObjectiveLists ==
    { << o >> : o \in ObjectiveTexts } \cup { << NetFlowObjective, o >> : o \in ObjectiveTexts }

SetupStart ==
    /\ su_pc = "objectives" /\ su_error = "none"
    /\ objectives = NotBuilt /\ su_flows = NotBuilt /\ network = NotBuilt
    /\ ga_operators = NotBuilt

\* set-up over every KSP file, with one valid objective
InitNet ==
    /\ su_objectives = << NetFlowObjective >>
    /\ su_ksp \in KspFiles
    /\ SetupStart
    /\ GaUnused /\ ReUnused /\ EvUnused /\ RunUnused

\* set-up over every objective list, with a valid KSP file
InitObjectives ==
    /\ su_objectives \in ObjectiveLists
    /\ su_ksp = ButterflyKsp
    /\ SetupStart
    /\ GaUnused /\ ReUnused /\ EvUnused /\ RunUnused

SetupStep(result, next_pc) ==
    /\ su_pc' = IF result.status = "ok" THEN next_pc ELSE "raised"
    /\ su_error' = IF result.status = "ok" THEN su_error ELSE result.status
    /\ UNCHANGED << su_objectives, su_ksp >>
    /\ UNCHANGED << gaVars, reVars, evVars, runVars >>

\* objectives = Objectives(parameters.objectives)
ObjectivesInit ==
    /\ su_pc = "objectives"
    /\ LET result == ParseObjectives(su_objectives)
       IN  /\ SetupStep(result, "flows")
           /\ objectives' = IF result.status = "ok" THEN result ELSE objectives
    /\ UNCHANGED << su_flows, network, ga_operators >>

\* flows = Flow.parse_flows(ksp_xml.get_root())
CallParseFlows ==
    /\ su_pc = "flows"
    /\ LET result == ParseFlows(su_ksp)
       IN  /\ SetupStep(result, "network")
           /\ su_flows' = IF result.status = "ok" THEN result ELSE su_flows
    /\ UNCHANGED << objectives, network, ga_operators >>

\* network = Network(ksp_xml.get_root(), flows, objectives, logger.log_info)
CallNetworkInit ==
    /\ su_pc = "network"
    /\ LET result == NetworkInit(su_ksp, su_flows.flows, objectives.objectives)
       IN  /\ SetupStep(result, "operators")
           /\ network' = IF result.status = "ok" THEN result ELSE network
    /\ UNCHANGED << objectives, su_flows, ga_operators >>

\* ga_operators = GaOperators(flows, network, parameters, objectives, ...)
CallGaOperatorsInit ==
    /\ su_pc = "operators"
    /\ LET result == GaOperatorsInit(objectives.objectives)
       IN  /\ SetupStep(result, "ready")
           /\ ga_operators' = IF result.status = "ok" THEN result ELSE ga_operators
    /\ UNCHANGED << objectives, su_flows, network >>

\* population = toolbox.population(n=parameters.pop_size): the first
\* chromosomes are generated, and then evaluated
GeneratePopulation ==
    /\ su_pc = "ready"
    /\ su_pc' = "evolving"
    /\ UNCHANGED << su_objectives, su_ksp, su_error, objectives, su_flows, network,
                    ga_operators >>
    /\ UNCHANGED << gaVars, reVars, evVars, runVars >>

NextSetup ==
    \/ ObjectivesInit
    \/ CallParseFlows
    \/ CallNetworkInit
    \/ CallGaOperatorsInit
    \/ GeneratePopulation

SpecNet == InitNet /\ [][NextSetup]_vars

SpecObjectives == InitObjectives /\ [][NextSetup]_vars

---------------------------------------------------------------------------
(* Properties of remove_excess *)

ReCalled == re_outcome # NoOutcome

\* C1: for every vector of non-negative values and every excess with
\* 0 <= excess <= sum(values), remove_excess returns a vector r of the same
\* length with 0 <= r[i] <= values[i] for every i and
\* sum(r) = sum(values) - excess, whatever shuffle and draws are taken.
RemoveExcessFeasible ==
    (ReCalled /\ re_excess <= SumSeq(re_values)) =>
        /\ re_outcome.status = "ok"
        /\ Len(re_outcome.values) = Len(re_values)
        /\ \A i \in 1..Len(re_values) :
              0 <= re_outcome.values[i] /\ re_outcome.values[i] <= re_values[i]
        /\ SumSeq(re_outcome.values) = SumSeq(re_values) - re_excess

\* C8: remove_excess raises 'Excess exceeded total' if and only if
\* excess > sum(values); with excess = sum(values) it raises nothing and
\* returns the all-zero vector.
RaisesIffExcessExceedsTotal ==
    ReCalled =>
        /\ (re_outcome.status = "ExcessExceededTotal") <=> (re_excess > SumSeq(re_values))
        /\ re_excess = SumSeq(re_values) =>
              /\ re_outcome.status = "ok"
              /\ re_outcome.values = [i \in 1..Len(re_values) |-> 0]

\* The orders random.shuffle can put values in
ShuffledValues(values) ==
    { [i \in 1..Len(values) |-> values[shuffled[i]]] : shuffled \in Perms(Len(values)) }

RePrecondition == SumSeq(re_values) > 0 /\ re_excess <= SumSeq(re_values)

\* C18: with sum(values) > 0 and 0 <= excess <= sum(values), for every shuffle
\* and every admissible choice of the earlier draws, the interval drawn from at
\* every step k = 0..n-2 is non-empty (its lower end is not above its upper
\* end) and the last amount z - sum(x) lies in [0, y[n-1]].
DrawIntervalsNonEmpty ==
    (ReCalled /\ RePrecondition) =>
        \A y \in ShuffledValues(re_values) :
            /\ \A k \in 1..(Len(y) - 1) :
                  \A x_sum \in XSums(y, re_excess, k) :
                      DrawInterval(y, re_excess, x_sum, k).min_value
                          <= DrawInterval(y, re_excess, x_sum, k).max_value
            /\ \A x_sum \in XSums(y, re_excess, Len(y)) :
                  0 <= re_excess - x_sum /\ re_excess - x_sum <= y[Len(y)]

\* remove_excess has drawn from intervals with distinct ends, on three
\* different values, and has taken a part of two of them
DrewFromProperIntervals ==
    /\ ReCalled /\ RePrecondition
    /\ Len(re_values) = 3
    /\ re_values[1] < re_values[2] /\ re_values[2] < re_values[3]
    /\ re_excess > re_values[1] /\ re_excess < re_values[3]
    /\ re_outcome.status = "ok"
    /\ \A i \in 2..3 : re_outcome.values[i] > 0 /\ re_outcome.values[i] < re_values[i]

---------------------------------------------------------------------------
(* The three invariants of a chromosome, stated from the topology *)

RECURSIVE SumOver(_, _)
SumOver(chromosome, S) ==
    IF S = {}
    THEN 0
    ELSE LET p == CHOOSE q \in S : TRUE
         IN  chromosome[p] + SumOver(chromosome, S \ {p})

NonNegative(chromosome) == \A p \in 1..Len(chromosome) : chromosome[p] >= 0

PathsOfFlow(t, f) == { t.flows[f].paths[i] : i \in 1..Len(t.flows[f].paths) }

FlowsWithinRequest(t, chromosome) ==
    \A f \in 1..Len(t.flows) :
        SumOver(chromosome, PathsOfFlow(t, f)) <= t.flows[f].requested_rate

PathsTraversing(t, l) ==
    { p \in 1..Len(t.paths) : \E i \in 1..Len(t.paths[p].links) : t.paths[p].links[i] = l }

DataOnLink(t, chromosome, l) == SumOver(chromosome, PathsTraversing(t, l))

AckRateOnLink(t, chromosome, l) ==
    SumSeq([ i \in 1..Len(t.link_ack_path_map[l]) |-> chromosome[t.link_ack_path_map[l][i]] ])

\* data + 0.0458 * ack <= capacity, in whole numbers:
\* ceiling(ack * 229 / 5000) <= capacity - data
LinksWithinCapacity(t, chromosome) ==
    \A l \in 1..Len(t.links) :
        LET ack == AckRateOnLink(t, chromosome, l)
        IN  (ack \div 5000) * 229 + ((ack % 5000) * 229 + 4999) \div 5000
                <= t.links[l].capacity - DataOnLink(t, chromosome, l)

DataWithinCapacity(t, chromosome) ==
    \A l \in 1..Len(t.links) : DataOnLink(t, chromosome, l) <= t.links[l].capacity

AllInvariants(t, chromosome) ==
    /\ NonNegative(chromosome)
    /\ FlowsWithinRequest(t, chromosome)
    /\ LinksWithinCapacity(t, chromosome)

\* The fixed-point numbers are exact: whenever a link is repaired, its
\* usage, and so the excess removed, has no fraction left.
NumbersExact ==
    pc = "link_repair" =>
        \A l \in 1..NumLinks(topo) :
            OverProvisioned(topo, Current, l) => LinkUsageFraction(topo, Current, l) = 0

\* In exact arithmetic a repaired link is never over-provisioned again, so
\* the loop makes at most one pass per link and one more.
PassesBounded == pc \in {"link_repair", "done", "raised"} => passes <= NumLinks(topo) + 1

---------------------------------------------------------------------------
(* Properties of the repair engine and the operators *)

\* C2: after _validate_flow_constraint returns on a non-negative chromosome,
\* every flow's sum over its paths is at most its requested rate and every
\* gene is still non-negative.
FlowRepairRestoresFlows ==
    (op = "validate_flow" /\ pc = "done") =>
        /\ FlowsWithinRequest(topo, chromosome_1)
        /\ NonNegative(chromosome_1)

FlowRepairActed ==
    /\ op = "validate_flow" /\ pc = "done"
    /\ \E f \in 1..NumFlows(topo) :
          /\ SumOver(input_1, PathsOfFlow(topo, f)) > topo.flows[f].requested_rate
          /\ SumOver(chromosome_1, PathsOfFlow(topo, f)) = topo.flows[f].requested_rate
          /\ \E p \in PathsOfFlow(topo, f) : 0 < chromosome_1[p] /\ chromosome_1[p] < input_1[p]

OverRequested(t, chromosome, f) ==
    SumOver(chromosome, PathsOfFlow(t, f)) > t.flows[f].requested_rate

\* C19: when a flow's allocated sum exceeds its requested rate,
\* _validate_flow_constraint leaves the flow's sum equal to the requested rate
\* (not lower), each gene written to the path it was read from (none is above
\* what that path had, none is negative); the genes of a flow whose sum does
\* not exceed its requested rate are unchanged.
FlowRepairExactAndInPlace ==
    (op = "validate_flow" /\ pc = "done") =>
        \A f \in 1..NumFlows(topo) :
            IF OverRequested(topo, input_1, f)
            THEN /\ SumOver(chromosome_1, PathsOfFlow(topo, f))
                       = topo.flows[f].requested_rate
                 /\ \A p \in PathsOfFlow(topo, f) :
                       0 <= chromosome_1[p] /\ chromosome_1[p] <= input_1[p]
            ELSE \A p \in PathsOfFlow(topo, f) : chromosome_1[p] = input_1[p]

\* one flow repaired over two paths with different rates while another
\* flow, within its request, holds a positive rate
FlowRepairedBesideUntouchedFlow ==
    /\ op = "validate_flow" /\ pc = "done"
    /\ \E f, g \in 1..NumFlows(topo) :
          /\ OverRequested(topo, input_1, f)
          /\ \E p, q \in PathsOfFlow(topo, f) :
                /\ input_1[p] < input_1[q]
                /\ chromosome_1[p] > 0 /\ chromosome_1[q] < input_1[q]
          /\ ~OverRequested(topo, input_1, g)
          /\ \E p \in PathsOfFlow(topo, g) : input_1[p] > 0

InValidateChromosome ==
    op \in {"validate", "revalidate"} /\ pc \in {"link_repair", "done", "raised"}

\* C20: _validate_chromosome changes no gene of a chromosome that satisfies
\* the flow and link constraints, and full repair is idempotent: called on a
\* chromosome it has returned, it returns that chromosome.
ValidateChromosomeIdempotent ==
    /\ (InValidateChromosome /\ AllInvariants(topo, input_1)) =>
          chromosome_1 = input_1 /\ pc # "raised"
    /\ (InValidateChromosome /\ op = "revalidate") =>
          chromosome_1 = input_1 /\ pc # "raised"

\* the second call has returned a chromosome that the first call had to
\* repair for a flow and for a link
RepairedTwice ==
    /\ op = "revalidate" /\ pc = "done"
    /\ ~FlowsWithinRequest(topo, pre_repair_1)
    /\ \E p \in 1..Len(input_1) : 0 < input_1[p] /\ input_1[p] < pre_repair_1[p]
    /\ \E l \in 1..NumLinks(topo) :
          DataOnLink(topo, pre_repair_1, l) > topo.links[l].capacity

\* _validate_link_capacity_constraint has returned the first chromosome
LinkRepairReturnedFirst ==
    \/ pc = "done" /\ op \in {"generate", "validate_link", "mate", "mutate"}
    \/ op = "mate" /\ cur = 2

\* C3: whenever _validate_link_capacity_constraint returns, every link's data
\* plus 0.0458 times the rate of the ack paths mapped to it is at most the
\* link's capacity.
LinkRepairRestoresLinks ==
    /\ LinkRepairReturnedFirst => LinksWithinCapacity(topo, chromosome_1)
    /\ (op = "mate" /\ pc = "done") => LinksWithinCapacity(topo, chromosome_2)

LinkRepairActedWithAck ==
    /\ op = "validate_link" /\ pc = "done"
    /\ topo = AckTopo
    /\ chromosome_1[1] < input_1[1] /\ chromosome_1[2] < input_1[2]
    /\ chromosome_1[1] > 0 /\ chromosome_1[2] > 0

\* C4: every chromosome generate_chromosome returns has one gene per path and
\* satisfies the three invariants; with two links of capacity 10 and one flow
\* requesting 15 over two one-link paths, gene 1 <= 10, gene 2 <= 10 and
\* their sum <= 15.
GenerateIsFeasible ==
    (op = "generate" /\ pc = "done") =>
        /\ Len(chromosome_1) = Len(topo.paths)
        /\ AllInvariants(topo, chromosome_1)
        /\ topo = ScenarioTopo =>
              /\ chromosome_1[1] <= Rate(10)
              /\ chromosome_1[2] <= Rate(10)
              /\ chromosome_1[1] + chromosome_1[2] <= Rate(15)

GenerateRepairedScenario ==
    /\ op = "generate" /\ pc = "done"
    /\ topo = ScenarioTopo
    /\ chromosome_1[1] + chromosome_1[2] = Rate(15)
    /\ chromosome_1[1] < Rate(10) /\ chromosome_1[2] < Rate(10)

\* C5: if both parents given to mate_chromosomes are non-negative and
\* flow-feasible, both returned children are non-negative, flow-feasible and
\* link-feasible, although only the link repair runs.
MateKeepsFeasibility ==
    ( /\ op = "mate" /\ pc = "done"
      /\ NonNegative(input_1) /\ NonNegative(input_2)
      /\ FlowsWithinRequest(topo, input_1) /\ FlowsWithinRequest(topo, input_2) ) =>
        /\ AllInvariants(topo, chromosome_1)
        /\ AllInvariants(topo, chromosome_2)

MateSwappedAndRepaired ==
    /\ op = "mate" /\ pc = "done"
    /\ FlowsWithinRequest(topo, input_1) /\ FlowsWithinRequest(topo, input_2)
    /\ pre_repair_1 # input_1 /\ pre_repair_1 # input_2
    /\ chromosome_1 # pre_repair_1
    /\ chromosome_2 # pre_repair_2

CrossoverSwapsWholeFlows ==
    op = "mate" =>
        \A f \in 1..NumFlows(topo) :
            \/ /\ \A p \in PathsOfFlow(topo, f) : pre_repair_1[p] = input_1[p]
               /\ \A p \in PathsOfFlow(topo, f) : pre_repair_2[p] = input_2[p]
            \/ /\ \A p \in PathsOfFlow(topo, f) : pre_repair_1[p] = input_2[p]
               /\ \A p \in PathsOfFlow(topo, f) : pre_repair_2[p] = input_1[p]

CrossoverSwappedOneFlow ==
    /\ op = "mate" /\ pc = "link_repair" /\ cur = 1 /\ passes = 0
    /\ topo = SharedTopo
    /\ \A p \in 1..3 : input_1[p] # input_2[p]
    /\ \A p \in {1, 2} : pre_repair_1[p] = input_2[p] /\ pre_repair_2[p] = input_1[p]
    /\ pre_repair_1[3] = input_1[3] /\ pre_repair_2[3] = input_2[3]

\* C9: for every topology and every non-negative chromosome,
\* _validate_link_capacity_constraint ends normally, without raising a fatal
\* error.
LinkRepairNeverRaises ==
    ~(op = "validate_link" /\ pc = "raised")

\* C10: the link-repair loop counts its passes against a fixed bound,
\* #links x #paths, and raises a fatal error as soon as the bound is exceeded.
IterationCapEnforced ==
    (pc \in {"link_repair", "done", "raised"}
        /\ passes > NumLinks(topo) * NumPaths(topo)) =>
            (pc = "raised" /\ error = "IterationCapExceeded")


---------------------------------------------------------------------------
(* The evaluator *)

EvCalled == ev_result # NoOutcome

MetricWithinBound(objective, t, chromosome) ==
    /\ RatLeq(Rat(0, 1), MetricFunction(objective.fn_metric_calc, t, chromosome))
    /\ RatLeq(MetricFunction(objective.fn_metric_calc, t, chromosome),
              BoundFunction(objective.fn_obj_bound, t))

\* every path's cost is the sum of the costs of its links
PathCostsAreLinkCostSums(t) ==
    \A p \in 1..NumPaths(t) :
        t.paths[p].cost = SumSeq([ i \in 1..Len(t.paths[p].links) |->
                                      t.links[t.paths[p].links[i]].cost ])

\* Every built-in metric but the total cost is within its bound on a
\* feasible chromosome, whatever the path costs.
OtherMetricsWithinBounds ==
    (EvCalled /\ AllInvariants(ev_topo, ev_chromosome))
        => \A i \in 1..Len(BuiltInObjectives) :
              BuiltInObjectives[i].fn_metric_calc # "_calculate_total_network_cost"
                  => MetricWithinBound(BuiltInObjectives[i], ev_topo, ev_chromosome)

\* With path costs that are the sums of their links' costs the evaluator
\* returns every component in [0, 1].
EvaluateWithinUnitIntervalOfConsistentCosts ==
    (EvCalled /\ AllInvariants(ev_topo, ev_chromosome) /\ PathCostsAreLinkCostSums(ev_topo))
        => /\ ev_result.status = "ok"
           /\ \A i \in 1..Len(BuiltInObjectives) :
                 /\ MetricWithinBound(BuiltInObjectives[i], ev_topo, ev_chromosome)
                 /\ RatLeq(Rat(0, 1), ev_result.values[i])
                 /\ RatLeq(ev_result.values[i], Rat(1, 1))

EvaluatedFeasibleSplitFlow ==
    /\ EvCalled /\ AllInvariants(ev_topo, ev_chromosome)
    /\ PathCostsAreLinkCostSums(ev_topo)
    /\ Len(UsedPaths(ev_topo, ev_chromosome, 1)) = 3

\* C11: for every chromosome satisfying the invariants each built-in metric
\* is between 0 and its paired bound, so evaluate_chromosome returns every
\* component in [0, 1] and never raises the normalisation error.
EvaluateWithinUnitInterval ==
    (EvCalled /\ AllInvariants(ev_topo, ev_chromosome))
        => /\ ev_result.status = "ok"
           /\ \A i \in 1..Len(BuiltInObjectives) :
                 /\ MetricWithinBound(BuiltInObjectives[i], ev_topo, ev_chromosome)
                 /\ RatLeq(Rat(0, 1), ev_result.values[i])
                 /\ RatLeq(ev_result.values[i], Rat(1, 1))


---------------------------------------------------------------------------
(* Set-up *)

DataFlowElementsOf(ksp) == SelectSeq(ksp.flows, LAMBDA e : e.protocol # "A")

NetworkBuilt == su_pc \in { "operators", "ready", "evolving" }

FlowsWithPathId(ksp, path_id) ==
    { f \in 1..Len(DataFlowElementsOf(ksp)) :
        \E p \in 1..Len(DataFlowElementsOf(ksp)[f].paths) :
            DataFlowElementsOf(ksp)[f].paths[p].id = path_id }

PathIdsOf(ksp) ==
    UNION { { DataFlowElementsOf(ksp)[f].paths[p].id :
                p \in 1..Len(DataFlowElementsOf(ksp)[f].paths) } :
            f \in 1..Len(DataFlowElementsOf(ksp)) }

PathIdsGloballyUnique(ksp) ==
    \A path_id \in PathIdsOf(ksp) : Cardinality(FlowsWithPathId(ksp, path_id)) = 1

\* C13: a path id that appears in more than one flow is rejected: once the
\* Network is built every path id belongs to exactly one flow.
SharedPathIdRejected == NetworkBuilt => PathIdsGloballyUnique(su_ksp)

\* C14: the connectivity matrix has one row for each path of each flow and
\* one column for each link, and the entry of a path and a link is 1 if the
\* path traverses the link and 0 otherwise.
MatrixIsConnectivity ==
    NetworkBuilt =>
        LET data == DataFlowElementsOf(su_ksp)
            matrix == network.network_matrix
        IN  /\ Len(matrix) = SumSeq([ f \in 1..Len(data) |-> Len(data[f].paths) ])
            /\ \A row \in 1..Len(matrix) : Len(matrix[row]) = Len(su_ksp.links)
            /\ \A row \in 1..Len(matrix) : \A column \in 1..Len(su_ksp.links) :
                  matrix[row][column] \in { 0, 1 }
            /\ \A f \in 1..Len(data) : \A p \in 1..Len(data[f].paths) :
                  \A column \in 1..Len(su_ksp.links) :
                      matrix[data[f].paths[p].id + 1][column] = 1
                          <=> column - 1 \in SeqToSet(data[f].paths[p].links)

\* On a file whose path ids are unique over all flows the matrix is the
\* connectivity matrix.
MatrixIsConnectivityOfUniquePathIds ==
    (NetworkBuilt /\ PathIdsGloballyUnique(su_ksp)) => MatrixIsConnectivity

MatrixBuiltForTwoFlows ==
    /\ NetworkBuilt /\ PathIdsGloballyUnique(su_ksp)
    /\ Len(network.network_matrix) = 2
    /\ Len(su_flows.flows) = 2


ObjectivesBuilt == su_pc \in { "flows", "network", "operators", "ready", "evolving" }

\* four fields, the second the text of the integer -1 or +1
WellFormedObjective(text) == Len(text) = 4 /\ text[2] \in { "-1", "1", "+1" }

AllWellFormed(objs) == \A i \in 1..Len(objs) : WellFormedObjective(objs[i])

\* C15: an objective is accepted only with exactly four fields and an
\* integer weight of -1 or +1; any other objective ends the configuration
\* with an error and no objective list.
OnlyWellFormedObjectivesAccepted ==
    su_pc # "unused" =>
        /\ ObjectivesBuilt
              => /\ AllWellFormed(su_objectives)
                 /\ \A i \in 1..Len(su_objectives) :
                       objectives.objectives[i].obj_weight \in { 0 - 1, 1 }
        /\ ~AllWellFormed(su_objectives)
              => /\ su_pc \in { "objectives", "raised" }
                 /\ objectives = NotBuilt
                 /\ su_pc = "raised" => su_error \in { "RuntimeError", "ValueError" }

WeightTwoRejected ==
    /\ su_pc = "raised" /\ su_error = "RuntimeError"
    /\ Len(su_objectives) = 1 /\ Len(su_objectives[1]) = 4
    /\ su_objectives[1][2] = "2"

UnresolvedNames(objs) ==
    { i \in 1..Len(objs) :
        Len(objs[i]) = 4 /\ (\/ objs[i][3] \notin MetricFunctionNames
                             \/ objs[i][4] \notin BoundFunctionNames) }

---------------------------------------------------------------------------
(* Mutation strategies against the configured mutation functions *)

\* MutationType member named by a configured mutation function name
MutationTypeOfFunction(functionName) ==
    CASE functionName = "min_path" -> "MIN_PATH"
      [] functionName = "min_cost" -> "MIN_COST"
      [] functionName = "min_path_std_dev" -> "MIN_PATH_STD_DEV"
      [] functionName = "max_flow" -> "MAX_FLOW"

\* The strategies configured with a probability above 0
ConfiguredMutationTypes ==
    { MutationTypeOfFunction(ParametersMutationFunctions[i]) :
        i \in { j \in 1..Len(ParametersMutationFunctions) :
                  ParametersMutationFunctionProbability[j] > 0 } }

MutationApplied == op = "mutate" /\ mutation_operation # "NONE"

\* C17: the strategy applied to a flow by mutate_chromosome is one of the
\* configured mutation functions with a probability above 0; a strategy that
\* is not configured, or has probability 0, is never applied.
MutationDrawnFromConfiguration ==
    MutationApplied => mutation_operation \in ConfiguredMutationTypes

\* The configured strategy of probability 1 is among those applied
ConfiguredMutationApplied ==
    MutationApplied /\ mutation_operation \in ConfiguredMutationTypes

---------------------------------------------------------------------------
(* Link repair, step by step *)

\* a step of the loop of _validate_link_capacity_constraint on one chromosome
LinkRepairStep ==
    pc = "link_repair" /\ pc' \in {"link_repair", "done"} /\ cur' = cur

\* C21: on a chromosome (no gene negative) _validate_link_capacity_constraint
\* never raises a gene and never makes one negative (0 <= result[p] <=
\* input[p] for every path p), so a flow-feasible chromosome stays
\* flow-feasible, and no link's usage grows at any step of the repair.
LinkRepairOnlyLowers ==
    [][ /\ (LinkRepairStep /\ NonNegative(Current)) =>
             /\ \A p \in 1..NumPaths(topo) : 0 <= Current'[p] /\ Current'[p] <= Current[p]
             /\ FlowsWithinRequest(topo, Current) => FlowsWithinRequest(topo, Current')
             /\ \A l \in 1..NumLinks(topo) :
                   LinkUsage(topo, Current', l) <= LinkUsage(topo, Current, l)
        /\ (op' = "validate_link" /\ pc' \in {"link_repair", "done"}
              /\ NonNegative(input_1')) =>
             /\ \A p \in 1..NumPaths(topo) :
                   0 <= chromosome_1'[p] /\ chromosome_1'[p] <= input_1'[p]
             /\ FlowsWithinRequest(topo, input_1') => FlowsWithinRequest(topo, chromosome_1')
      ]_vars

\* _validate_link_capacity_constraint has returned a flow-feasible chromosome
\* after lowering one gene part of the way and leaving another as it was
LinkRepairLoweredOneGene ==
    /\ op = "validate_link" /\ pc = "done" /\ repairs_carried_out
    /\ FlowsWithinRequest(topo, input_1)
    /\ \E p \in 1..NumPaths(topo) : 0 < chromosome_1[p] /\ chromosome_1[p] < input_1[p]
    /\ \E p \in 1..NumPaths(topo) : 0 < chromosome_1[p] /\ chromosome_1[p] = input_1[p]

\* C22: one repair step of _validate_link_capacity_constraint, for an
\* over-provisioned link l, changes only genes of paths that traverse l and
\* had a non-zero rate; the gene of every path that does not traverse l is
\* unchanged by the step.
RepairStepTouchesOneLink ==
    [][ (LinkRepairStep /\ pc' = "link_repair" /\ passes' = passes + 1) =>
            \E l \in 1..NumLinks(topo) :
                /\ OverProvisioned(topo, Current, l)
                /\ \A p \in 1..NumPaths(topo) :
                      Current'[p] # Current[p] =>
                          p \in PathsTraversing(topo, l) /\ Current[p] # 0
      ]_vars

\* after the first repair step a gene has been lowered while a path with no
\* link in common with it keeps its positive rate
RepairStepLeftOtherLinkAlone ==
    /\ op = "validate_link" /\ pc = "link_repair" /\ passes = 1
    /\ \E p, q \in 1..NumPaths(topo) :
          /\ chromosome_1[p] < input_1[p]
          /\ SeqToSet(topo.paths[p].links) \cap SeqToSet(topo.paths[q].links) = {}
          /\ input_1[q] > 0 /\ chromosome_1[q] = input_1[q]

---------------------------------------------------------------------------
(* _assign_data_rate_on_paths and the strategies that call it *)

AssignedFlow == mutated_flows[1]

\* every link's data is within its capacity and the flow has no rate yet
AssignPrecondition ==
    /\ DataWithinCapacity(topo, input_1)
    /\ \A p \in FlowPaths(topo, AssignedFlow) : input_1[p] = 0

AssignReturned == op = "assign" /\ pc = "done"

\* C23: given a chromosome in which every link's data is within capacity and
\* the flow's own genes are zero, _assign_data_rate_on_paths writes only
\* non-negative rates, only to genes of the candidate paths, with the flow's
\* total at most its requested rate, and leaves the data on every link within
\* the link's capacity, also when candidate paths share a link.
AssignKeepsDataWithinCapacity ==
    (AssignReturned /\ AssignPrecondition) =>
        /\ NonNegative(chromosome_1)
        /\ \A p \in 1..NumPaths(topo) :
              p \notin SeqToSet(paths_visited) => chromosome_1[p] = input_1[p]
        /\ SumOver(chromosome_1, FlowPaths(topo, AssignedFlow))
              <= topo.flows[AssignedFlow].requested_rate
        /\ DataWithinCapacity(topo, chromosome_1)

\* two candidate paths that share a link have both been given a rate
AssignedOnSharedLink ==
    /\ AssignReturned /\ AssignPrecondition
    /\ \E p, q \in SeqToSet(paths_visited) :
          /\ p # q
          /\ SeqToSet(topo.paths[p].links) \cap SeqToSet(topo.paths[q].links) # {}
          /\ chromosome_1[p] > 0 /\ chromosome_1[q] > 0

\* C24: _assign_data_rate_on_paths is maximal on its candidate set: when it
\* returns, either the flow's total rate equals its requested rate, or every
\* candidate path traverses at least one link with no headroom left.
AssignIsMaximal ==
    (AssignReturned /\ AssignPrecondition) =>
        \/ SumOver(chromosome_1, FlowPaths(topo, AssignedFlow))
              = topo.flows[AssignedFlow].requested_rate
        \/ \A p \in SeqToSet(paths_visited) :
              \E l \in SeqToSet(topo.paths[p].links) : Headroom(topo, chromosome_1, l) = 0

\* two candidates have been visited, a rate has been assigned, and the flow is
\* still short of its request
AssignFilledAllCandidates ==
    /\ AssignReturned /\ AssignPrecondition
    /\ Len(paths_visited) = 2
    /\ \E p \in SeqToSet(paths_visited) : chromosome_1[p] > 0
    /\ SumOver(chromosome_1, FlowPaths(topo, AssignedFlow))
          < topo.flows[AssignedFlow].requested_rate

MinCostReturned == op = "min_cost_mutation" /\ pc = "done"

VisitedInAscendingCost ==
    \A i, j \in 1..Len(paths_visited) :
        i < j => topo.paths[paths_visited[i]].cost <= topo.paths[paths_visited[j]].cost

CheaperFilledFirst ==
    \A p, q \in SeqToSet(paths_visited) :
        (topo.paths[q].cost < topo.paths[p].cost /\ chromosome_1[p] > 0) =>
            \E l \in SeqToSet(topo.paths[q].links) : Headroom(topo, chromosome_1, l) = 0

\* C25: in the min-cost strategy the selected candidate paths are visited in
\* ascending order of cost, so a candidate has a non-zero rate only if every
\* strictly cheaper selected candidate has been filled up to the headroom of
\* its links.
MinCostFillsCheapestFirst ==
    (MinCostReturned /\ AssignPrecondition) =>
        VisitedInAscendingCost /\ CheaperFilledFirst

---------------------------------------------------------------------------
(* The bound of the cost objective *)

\* the cost of placing remaining_data_rate on the paths in the order given,
\* each path taking at most the least capacity of its links
RECURSIVE GreedyCostFrom(_, _, _, _)
GreedyCostFrom(t, paths, i, remaining_data_rate) ==
    IF i > Len(paths)
    THEN 0
    ELSE LET rate == Min2(remaining_data_rate, MinLinkCapacity(t, paths[i]))
         IN  rate * t.paths[paths[i]].cost
             + GreedyCostFrom(t, paths, i + 1, remaining_data_rate - rate)

\* C26: _get_network_cost_upper_bound is, summed over the flows, the cost of
\* placing the flow's requested rate greedily on its paths in descending order
\* of cost, each path taking at most the least capacity of its links; the
\* rate it charges for one flow never exceeds the flow's requested rate.
CostBoundIsGreedyPlacement ==
    EvCalled =>
        /\ GetNetworkCostUpperBound(ev_topo)
              = Rat(SumSeq([ f \in 1..NumFlows(ev_topo) |->
                               GreedyCostFrom(ev_topo, SortedByCostDescending(ev_topo, f), 1,
                                              ev_topo.flows[f].requested_rate) ]), 1)
        /\ \A f \in 1..NumFlows(ev_topo) :
              SumSeq(FlowRatesChargedFrom(ev_topo, SortedByCostDescending(ev_topo, f), 1,
                                          ev_topo.flows[f].requested_rate))
                 <= ev_topo.flows[f].requested_rate

---------------------------------------------------------------------------
(* The delay distribution metric *)

RatEq(a, b) == a[1] * b[2] = b[1] * a[2]

RECURSIVE RatSumSeq(_)
RatSumSeq(s) == IF s = << >> THEN Rat(0, 1) ELSE RatAdd(Head(s), RatSumSeq(Tail(s)))

\* sum over the flow's used paths of rate / (pathCost - minPathCost + 1),
\* divided by the sum of the rates of the used paths
FlowWeightedMean(t, chromosome, f) ==
    LET used == UsedPaths(t, chromosome, f)
        lowest == MinSeq(PathCosts(t, t.flows[f].paths))
    IN  RatDiv(RatSumSeq([ i \in 1..Len(used) |->
                             Rat(chromosome[used[i]], t.paths[used[i]].cost - lowest + 1) ]),
               Rat(SumSeq([ i \in 1..Len(used) |-> chromosome[used[i]] ]), 1))

FlowsInUse(t, chromosome) ==
    SelectSeq([ f \in 1..NumFlows(t) |-> f ],
              LAMBDA f : Len(UsedPaths(t, chromosome, f)) > 0)

Scaled(chromosome, factor) == [ p \in 1..Len(chromosome) |-> factor * chromosome[p] ]

\* C27: for every chromosome _calculate_delay_distribution_metric is the sum,
\* over the flows with a non-zero gene, of the rate-weighted mean of
\* 1 / (pathCost - minPathCost + 1) over the flow's used paths, also when used
\* paths of a flow have equal cost; each flow's contribution is at most 1 and
\* is the same when all the flow's rates are scaled by one positive factor.
DelayDistributionIsWeightedMean ==
    EvCalled =>
        /\ RatEq(CalculateDelayDistributionMetric(ev_topo, ev_chromosome),
                 RatSumSeq([ i \in 1..Len(FlowsInUse(ev_topo, ev_chromosome)) |->
                               FlowWeightedMean(ev_topo, ev_chromosome,
                                                FlowsInUse(ev_topo, ev_chromosome)[i]) ]))
        /\ \A f \in 1..NumFlows(ev_topo) :
              /\ RatLeq(FlowDelayDistribution(ev_topo, ev_chromosome, f), Rat(1, 1))
              /\ RatEq(FlowDelayDistribution(ev_topo, Scaled(ev_chromosome, 2), f),
                       FlowDelayDistribution(ev_topo, ev_chromosome, f))

---------------------------------------------------------------------------
(* The frame of mutate_chromosome *)

NoAckPaths(t) == \A l \in 1..NumLinks(t) : GetAckPathsUsedByLink(t, l) = << >>

MutateOfFeasible ==
    /\ op = "mutate" /\ pc \in {"link_repair", "done", "raised"}
    /\ NoAckPaths(topo)
    /\ AllInvariants(topo, input_1)

\* C28: on a topology without ack paths, when mutate_chromosome is applied to
\* a chromosome satisfying the three invariants, the final repair changes
\* nothing: the genes of every flow not selected are those of the input, and
\* each selected flow keeps the rates written by _assign_data_rate_on_paths.
MutateRepairChangesNothing ==
    MutateOfFeasible =>
        /\ pc # "raised"
        /\ chromosome_1 = pre_repair_1
        /\ \A f \in 1..NumFlows(topo) :
              f \notin SeqToSet(mutated_flows) =>
                  \A p \in FlowPaths(topo, f) : chromosome_1[p] = input_1[p]

\* mutate_chromosome has returned after giving one flow other rates while a
\* flow it did not select holds a rate
MutatedOneFlowOfTwo ==
    /\ MutateOfFeasible /\ pc = "done"
    /\ \E f, g \in 1..NumFlows(topo) :
          /\ f \in SeqToSet(mutated_flows) /\ g \notin SeqToSet(mutated_flows)
          /\ \E p \in FlowPaths(topo, f) : chromosome_1[p] # input_1[p] /\ chromosome_1[p] > 0
          /\ \E p \in FlowPaths(topo, g) : input_1[p] > 0

\* GaStatistics.log_flow_repair and log_link_repair: the counter of the
\* current generation a repair is added to for an operation type
RepairCounter(op_type) ==
    CASE op_type = "CROSSOVER" -> "repaired_crossover"
      [] op_type = "MUTATION"  -> "repaired_mutation"
      [] OTHER                 -> "none"

\* the counter a repair belongs to by the operator whose call performed it
CounterOfCall(operator) ==
    CASE operator = "mate"   -> "repaired_crossover"
      [] operator = "mutate" -> "repaired_mutation"
      [] OTHER               -> "none"

\* a link repair carried out inside the running call of one of the three
\* operators, logged with self.current_operation when the call's
\* _validate_link_capacity_constraint returns
RepairInsideOperator ==
    /\ op \in {"generate", "mate", "mutate"}
    /\ pc \in {"link_repair", "done"}
    /\ repairs_carried_out

\* C29: after any sequence of generate_chromosome, mate_chromosomes and
\* mutate_chromosome calls, a repair is counted under the operation whose
\* call performed it: crossover repairs inside mate_chromosomes, mutation
\* repairs inside mutate_chromosome, neither inside generate_chromosome.
RepairCountedUnderItsCall ==
    RepairInsideOperator => RepairCounter(current_operation) = CounterOfCall(op)

\* the part of C29 that holds: repairs inside mate_chromosomes and
\* mutate_chromosome are counted under crossover and mutation
MateAndMutateRepairsCounted ==
    (RepairInsideOperator /\ op # "generate") =>
        RepairCounter(current_operation) = CounterOfCall(op)

---------------------------------------------------------------------------
(* The NSGA-II run: the generation loop of nsga2 with the populations and  *)
(* statistics it buffers and appends to the result document.               *)

\* largest num_generations of a run, and crossovers logged in a generation
MaxGenerations == 4
MaxCrossovers == 1

\* Parameters: num_generations > 0 and 1 <= xml_save_frequency <= num_generations
ParameterSets ==
    { q \in [num_generations : 1..MaxGenerations,
             xml_save_frequency : 1..MaxGenerations] :
          q.xml_save_frequency <= q.num_generations }

\* the keys of a dictionary of generations, in ascending order from g
RECURSIVE SortedFrom(_, _)
SortedFrom(keys, g) ==
    IF keys = {} THEN << >>
    ELSE IF g \in keys THEN << g >> \o SortedFrom(keys \ {g}, g + 1)
    ELSE SortedFrom(keys, g + 1)

\* GaResults.__init__: population_by_generation is kept by its keys
GaResultsInit == [status |-> "ok", population_by_generation |-> {}]

\* GaResults.add_population
AddPopulation(results, n_generation) ==
    IF n_generation \in results.population_by_generation
    THEN [status |-> "RuntimeError", results |-> results]
    ELSE [status |-> "ok",
          results |-> [results EXCEPT !.population_by_generation =
                                          @ \cup {n_generation}]]

\* GaResults.append_to_xml that leaves the populations in the dictionary
AppendToXmlKeepingPopulations(results, xml) ==
    [results |-> results,
     xml |-> [xml EXCEPT !.Population =
                  @ \o SortedFrom(results.population_by_generation, 0)]]

\* GaResults.append_to_xml: a Generation element per buffered population, in
\* ascending order of the generation; the dictionary is then empty
GaResultsAppendToXml(results, xml) ==
    [results |-> [results EXCEPT !.population_by_generation = {}],
     xml |-> [xml EXCEPT !.Population =
                  @ \o SortedFrom(results.population_by_generation, 0)]]

\* GaStatistics.__init__: a counter (its num_crossovers) per generation 1..n
GaStatisticsInit(n_generations) ==
    [status |-> "ok", current_generation |-> 0,
     op_counter |-> [generation \in 1..n_generations |-> 0]]

\* GaStatistics.set_generation
SetGeneration(stats, generation) ==
    [stats EXCEPT !.current_generation = generation]

\* the log_crossover_operation calls of a generation followed by
\* log_survivors: both read op_counter[current_generation]
LogGeneration(stats, crossovers) ==
    IF stats.current_generation \in DOMAIN stats.op_counter
    THEN [status |-> "ok",
          stats |-> [stats EXCEPT !.op_counter[stats.current_generation] =
                                      @ + crossovers]]
    ELSE [status |-> "KeyError", stats |-> stats]

\* GaStatistics.append_to_xml: a Generation element per counter of a
\* generation up to the current one, which is then deleted
GaStatisticsAppendToXml(stats, xml) ==
    LET saved == { g \in DOMAIN stats.op_counter : g <= stats.current_generation }
        order == SortedFrom(saved, 0)
    IN  [stats |-> [stats EXCEPT !.op_counter =
                        [g \in (DOMAIN stats.op_counter) \ saved |-> stats.op_counter[g]]],
         xml |-> [xml EXCEPT !.Statistics =
                      @ \o [i \in 1..Len(order) |->
                               [Id |-> order[i], Total |-> stats.op_counter[order[i]]]]]]

\* ga_results.append_to_xml(root) then ga_stats.append_to_xml(root)
AppendBoth ==
    LET r == GaResultsAppendToXml(ga_results, result_xml)
        t == GaStatisticsAppendToXml(ga_stats, r.xml)
    IN  /\ ga_results' = r.results
        /\ ga_stats' = t.stats
        /\ result_xml' = t.xml

InitRun ==
    /\ parameters \in ParameterSets
    /\ nsga2_pc = "start" /\ gen = 0
    /\ ga_results = GaResultsInit
    /\ ga_stats = GaStatisticsInit(parameters.num_generations)
    /\ result_xml = [status |-> "ok", Population |-> << >>, Statistics |-> << >>]
    /\ GaUnused /\ ReUnused /\ EvUnused /\ SetupUnused

\* nsga2 up to the loop: the first population is stored as generation 0
StoreInitialPopulation ==
    /\ nsga2_pc = "start"
    /\ LET a == AddPopulation(ga_results, 0)
       IN  /\ ga_results' = a.results
           /\ nsga2_pc' = IF a.status = "ok" THEN "loop" ELSE "raised"
    /\ gen' = 1
    /\ UNCHANGED << parameters, ga_stats, result_xml >>
    /\ UNCHANGED << gaVars, reVars, evVars, setupVars >>

\* one generation of the loop up to add_population
RunGeneration ==
    /\ nsga2_pc = "loop"
    /\ gen <= parameters.num_generations
    /\ \E crossovers \in 0..MaxCrossovers :
          LET g == LogGeneration(SetGeneration(ga_stats, gen), crossovers)
              a == AddPopulation(ga_results, gen)
          IN  /\ ga_stats' = g.stats
              /\ ga_results' = IF g.status = "ok" THEN a.results ELSE ga_results
              /\ nsga2_pc' = IF g.status = "ok" /\ a.status = "ok"
                             THEN "save" ELSE "raised"
    /\ UNCHANGED << parameters, gen, result_xml >>
    /\ UNCHANGED << gaVars, reVars, evVars, setupVars >>

\* the end of the loop body: the results are appended every
\* xml_save_frequency generations
PeriodicAppend ==
    /\ nsga2_pc = "save"
    /\ IF gen % parameters.xml_save_frequency = 0
       THEN AppendBoth
       ELSE UNCHANGED << ga_results, ga_stats, result_xml >>
    /\ gen' = gen + 1
    /\ nsga2_pc' = "loop"
    /\ UNCHANGED parameters
    /\ UNCHANGED << gaVars, reVars, evVars, setupVars >>

\* after the loop: the unconditional append
FinalAppend ==
    /\ nsga2_pc = "loop"
    /\ gen > parameters.num_generations
    /\ AppendBoth
    /\ nsga2_pc' = "finished"
    /\ UNCHANGED << parameters, gen >>
    /\ UNCHANGED << gaVars, reVars, evVars, setupVars >>

NextRun ==
    \/ StoreInitialPopulation
    \/ RunGeneration
    \/ PeriodicAppend
    \/ FinalAppend

\* nsga2 is sequential code: it runs on until it returns or raises
SpecRun == InitRun /\ [][NextRun]_vars /\ WF_vars(NextRun)

\* how many Generation elements of the Population element carry a number
TimesPopulationAppended(g) ==
    Cardinality({ i \in 1..Len(result_xml.Population) : result_xml.Population[i] = g })

\* how many Generation elements of the Statistics element carry an Id
TimesStatisticsAppended(g) ==
    Cardinality({ i \in 1..Len(result_xml.Statistics) : result_xml.Statistics[i].Id = g })

NothingAppendedTwice ==
    /\ nsga2_pc # "raised"
    /\ \A g \in 0..MaxGenerations + 1 :
          TimesPopulationAppended(g) <= 1 /\ TimesStatisticsAppended(g) <= 1

RunComplete ==
    /\ nsga2_pc = "finished"
    /\ \A g \in 0..parameters.num_generations : TimesPopulationAppended(g) = 1
    /\ \A g \in 1..parameters.num_generations : TimesStatisticsAppended(g) = 1
    /\ Len(result_xml.Population) = parameters.num_generations + 1
    /\ Len(result_xml.Statistics) = parameters.num_generations

\* C30: in an NSGA-II run of N generations with any xml_save_frequency in
\* 1..N, the run ends with the population of every generation 0..N appended
\* to the result document exactly once and the statistics of every
\* generation 1..N exactly once; no append duplicates a generation.
EveryGenerationAppendedOnce ==
    /\ [] NothingAppendedTwice
    /\ <>[] RunComplete

\* a run has ended whose last generation was saved by a periodic append
\* before the final append, after an earlier periodic append
FinalAppendAfterPeriodicAppend ==
    /\ nsga2_pc = "finished"
    /\ parameters.xml_save_frequency < parameters.num_generations
    /\ parameters.num_generations % parameters.xml_save_frequency = 0
    /\ Len(result_xml.Population) = parameters.num_generations + 1
    /\ \E i \in 1..Len(result_xml.Statistics) : result_xml.Statistics[i].Total > 0

====
